---------------------------- MODULE Spec2Model ----------------------------
(***************************************************************************)
(* A model of the spec-unification core of OpenRGD:                        *)
(*   - strip_jsonc, the character scanner that removes JSONC comments      *)
(*     (core/utils.py);                                                    *)
(*   - the topology resolver of the ROS2 bridge, _expand_profiles and      *)
(*     _recursive_update (bridges/ros2/generator.py);                      *)
(*   - the spec scanner and the compile-spec command (core/spec_unifier.py *)
(*     and commands/compiler.py);                                          *)
(*   - the integrity check (commands/integrity.py);                        *)
(*   - the joints map and the controller configuration of the ROS2 bridge  *)
(*     (bridges/ros2/generator.py);                                        *)
(*   - the export commands (commands/bridge.py, commands/synapse.py).      *)
(* Texts are sequences of one-character strings.  JSON values are tagged   *)
(* records [t, v].  File names are [stem, ext] with the stem a sequence of *)
(* characters.                                                             *)
(***************************************************************************)
EXTENDS Integers, Sequences, FiniteSets, TLC

VARIABLES
    \* strip_jsonc (core/utils.py)
    text, i, in_string, in_comment_line, in_comment_block, output,
    \* ROS2Bridge._expand_profiles (bridges/ros2/generator.py)
    topology_content,     \* the argument: NoTopology or a topology mapping
    todo,                 \* the instance keys the loop of line 109 has yet to visit
    expanded_instances,   \* line 107
    resolved_topology,    \* the value returned, NotReturned before that
    raised,               \* TRUE once an exception has left _expand_profiles
    \* the spec scanner and compile-spec (core/spec_unifier.py, commands/compiler.py)
    files,                \* the files under root_dir
    source_files,         \* the files the tree held before any build
    records,              \* the result of the last scan of the tree as it is
    prev_records,         \* the result of the scan before it
    scans,                \* scans of the tree since it last changed, up to 2
    builds,               \* compile-spec runs so far
    exit_code,            \* the exit code of the last compile-spec run
    command,              \* the mode and options of the last compile-spec run
    \* the integrity check (commands/integrity.py)
    report,               \* what the last command, if an integrity check, reported
    checks,               \* integrity checks run so far
    edits,                \* edits of source files so far
    \* the machine comparison of the integrity check (integrity.py lines 120-133)
    left_doc,             \* the regenerated machine document, parsed
    right_doc,            \* the benchmark machine document, parsed
    compared,             \* "none" before the comparison, then its verdict
    \* the joints map of ROS2Bridge.generate (bridges/ros2/generator.py)
    phys_data,            \* line 52
    topo_data,            \* line 55
    hal_data,             \* line 58
    all_keys,             \* the keys the loop of line 63 has yet to visit
    joints_map,           \* line 49
    control_yaml,         \* what _generate_ros2_control_yaml has written (lines 159-205)
    \* the export commands (commands/bridge.py, commands/synapse.py)
    export_input,         \* the command run, its target and what it finds on disk
    export_pc,            \* "idle", "start", "execute" (bridge.py line 40) or "done"
    output_dir,           \* TRUE when the destination folder exists
    adapter,              \* the class instantiated, "none" before that
    artifacts,            \* the files written into the destination folder
    logged,               \* the messages reported
    export_exit,          \* the exit code of the command, -1 while it runs
    \* _expand_profiles on objects with an identity (generator.py lines 97-139)
    heap,                 \* the dicts and lists that exist: address to object
    heap_given,           \* the value of topology_content when the call starts
    heap_root,            \* the reference to topology_content
    heap_todo,            \* the instance keys the loop of line 109 has yet to visit
    heap_expanded,        \* expanded_instances (line 107): key to reference
    heap_final,           \* line 111: the reference held by final_data, Null between instances
    update_calls,         \* the calls of _recursive_update in progress, the innermost last
    heap_phase,           \* "next", "instance" (line 121) or "overrides" (line 125)
    heap_raised,          \* TRUE once an exception has left _expand_profiles
    heap_returned         \* the reference returned (line 130), Null before that

stripVars == <<text, i, in_string, in_comment_line, in_comment_block, output>>

mergeVars == <<topology_content, todo, expanded_instances, resolved_topology, raised>>

scanVars == <<files, source_files, records, prev_records, scans, builds, exit_code, command>>

integrityVars == <<report, checks, edits>>

compareVars == <<left_doc, right_doc, compared>>

exportVars == <<phys_data, topo_data, hal_data, all_keys, joints_map, control_yaml>>

commandVars == <<export_input, export_pc, output_dir, adapter, artifacts, logged, export_exit>>

heapVars ==
    <<heap, heap_given, heap_root, heap_todo, heap_expanded, heap_final, update_calls,
      heap_phase, heap_raised, heap_returned>>

vars ==
    <<stripVars, mergeVars, scanVars, integrityVars, compareVars, exportVars, commandVars,
      heapVars>>

otherThanStrip == <<mergeVars, scanVars, integrityVars, compareVars, exportVars, commandVars, heapVars>>
otherThanMerge == <<stripVars, scanVars, integrityVars, compareVars, exportVars, commandVars, heapVars>>
otherThanScan == <<stripVars, mergeVars, compareVars, exportVars, commandVars, heapVars>>
otherThanCompare == <<stripVars, mergeVars, scanVars, integrityVars, exportVars, commandVars, heapVars>>
otherThanExport == <<stripVars, mergeVars, scanVars, integrityVars, compareVars, commandVars, heapVars>>
otherThanCommand ==
    <<stripVars, mergeVars, scanVars, integrityVars, compareVars, exportVars, heapVars>>
otherThanHeap ==
    <<stripVars, mergeVars, scanVars, integrityVars, compareVars, exportVars, commandVars>>

\* datetime.now(): every command that writes documents runs at a time of its own
Now == builds + checks + 1

-----------------------------------------------------------------------------
(* Characters *)

Q  == "\""
B  == "\\"
S  == "/"
T  == "*"
NL == "\n"

\* The characters the bounded inputs are built from: the five characters the
\* scanner tests for, and one ordinary character.
Chars == {Q, B, S, T, NL, "n"}

\* Lexical pieces valid JSONC texts are built from: a quote, the two escapes
\* of the escape rule, the comment delimiters, a newline, an ordinary character.
Pieces == {<<Q>>, <<B, B>>, <<B, Q>>, <<S, S>>, <<S, T>>, <<T, S>>, <<NL>>, <<"n">>}

MaxLen == 3
MaxPieces == 5

RECURSIVE TextsOver(_)
TextsOver(n) ==
    IF n = 0 THEN {<<>>}
    ELSE LET shorter == TextsOver(n - 1)
         IN  shorter \cup {Append(s, c) : s \in {x \in shorter : Len(x) = n - 1}, c \in Chars}

RECURSIVE PieceTexts(_)
PieceTexts(n) ==
    IF n = 0 THEN {<<>>}
    ELSE LET shorter == PieceTexts(n - 1)
         IN  shorter \cup {s \o p : s \in shorter, p \in Pieces}

\* The example of the specification: {"url": "http://example.com"}
ExampleUrl ==
    <<"{", Q, "u", "r", "l", Q, ":", " ", Q, "h", "t", "t", "p", ":", S, S,
      "e", "x", "a", "m", "p", "l", "e", ".", "c", "o", "m", Q, "}">>

-----------------------------------------------------------------------------
(* JSON lexing, the reference the scanner is compared with.  With jsonc =   *)
(* TRUE comments are skipped; with jsonc = FALSE the text is strict JSON.   *)
(* A string literal runs from a quote to the next quote that is not part   *)
(* of a backslash escape; an escape is a backslash and the character after *)
(* it.                                                                     *)

\* A token list that no text has: the text does not lex.
LexError == <<<<"error", <<>>>>>>

Whitespace == {NL, " "}

EscapeChars == {Q, B, S, "n"}

RECURSIVE Lex(_, _, _, _, _, _)
Lex(s, k, st, cur, toks, jsonc) ==
    IF k > Len(s)
    THEN IF st \in {"normal", "line"} THEN toks ELSE LexError
    ELSE LET c == s[k]
             nx == IF k < Len(s) THEN s[k + 1] ELSE ""
         IN  CASE st = "normal" ->
                    IF c = Q THEN Lex(s, k + 1, "string", <<>>, toks, jsonc)
                    ELSE IF jsonc /\ c = S /\ nx = S THEN Lex(s, k + 2, "line", cur, toks, jsonc)
                    ELSE IF jsonc /\ c = S /\ nx = T THEN Lex(s, k + 2, "block", cur, toks, jsonc)
                    ELSE IF c \in {S, T, B} THEN LexError
                    ELSE IF c \in Whitespace THEN Lex(s, k + 1, "normal", cur, toks, jsonc)
                    ELSE Lex(s, k + 1, "normal", cur, Append(toks, <<"p", <<c>>>>), jsonc)
               [] st = "string" ->
                    IF c = B
                    THEN IF nx \in EscapeChars
                         THEN Lex(s, k + 2, "string", cur \o <<B, nx>>, toks, jsonc)
                         ELSE LexError
                    ELSE IF c = Q
                    THEN Lex(s, k + 1, "normal", <<>>, Append(toks, <<"s", cur>>), jsonc)
                    ELSE Lex(s, k + 1, "string", Append(cur, c), toks, jsonc)
               [] st = "line" ->
                    IF c = NL THEN Lex(s, k + 1, "normal", cur, toks, jsonc)
                    ELSE Lex(s, k + 1, "line", cur, toks, jsonc)
               [] st = "block" ->
                    IF c = T /\ nx = S THEN Lex(s, k + 2, "normal", cur, toks, jsonc)
                    ELSE Lex(s, k + 1, "block", cur, toks, jsonc)

\* The tokens of a JSONC text (comments skipped) and of a strict JSON text.
JsoncTokens(s) == Lex(s, 1, "normal", <<>>, <<>>, TRUE)
JsonTokens(s) == Lex(s, 1, "normal", <<>>, <<>>, FALSE)

ValidJsonc(s) == JsoncTokens(s) # LexError

\* The lexical state in which the character at 0-based position p of s is read.
RECURSIVE LexStateAt(_, _, _, _)
LexStateAt(s, k, st, p) ==
    IF k > Len(s) THEN "end"
    ELSE LET c == s[k]
             nx == IF k < Len(s) THEN s[k + 1] ELSE ""
             two == \/ st = "normal" /\ c = S /\ nx \in {S, T}
                    \/ st = "string" /\ c = B
                    \/ st = "block" /\ c = T /\ nx = S
             st2 == CASE st = "normal" /\ c = Q -> "string"
                      [] st = "normal" /\ c = S /\ nx = S -> "line"
                      [] st = "normal" /\ c = S /\ nx = T -> "block"
                      [] st = "string" /\ c = Q -> "normal"
                      [] st = "line" /\ c = NL -> "normal"
                      [] st = "block" /\ c = T /\ nx = S -> "normal"
                      [] OTHER -> st
         IN  IF p + 1 = k THEN st
             ELSE IF two /\ p + 1 = k + 1 THEN (IF st = "normal" THEN st2 ELSE st)
             ELSE LexStateAt(s, IF two THEN k + 2 ELSE k + 1, st2, p)

InsideStringLiteral(s, p) == LexStateAt(s, 1, "normal", p) = "string"

-----------------------------------------------------------------------------
(* strip_jsonc: one action per branch of the loop body *)

length == Len(text)

\* text[i] with the source's 0-based index
At(k) == text[k + 1]

char == At(i)
next_char == IF i + 1 < length THEN At(i + 1) ELSE ""

\* line 49: the quote is taken as escaped
QuoteEscaped(k) == k > 0 /\ At(k - 1) = B /\ ~(k > 1 /\ At(k - 2) = B)

StripStart ==
    /\ text \in TextsOver(MaxLen) \cup {s \in PieceTexts(MaxPieces) : ValidJsonc(s)}
                \cup {ExampleUrl}
    /\ i = 0
    /\ in_string = FALSE
    /\ in_comment_line = FALSE
    /\ in_comment_block = FALSE
    /\ output = <<>>

\* No text is being scanned.
StripIdle ==
    /\ text = <<>>
    /\ i = 0
    /\ in_string = FALSE
    /\ in_comment_line = FALSE
    /\ in_comment_block = FALSE
    /\ output = <<>>

\* lines 48-51
QuoteChar ==
    /\ i < length
    /\ char = Q /\ ~in_comment_line /\ ~in_comment_block
    /\ in_string' = IF QuoteEscaped(i) THEN in_string ELSE ~in_string
    /\ output' = Append(output, char)
    /\ i' = i + 1
    /\ UNCHANGED <<text, in_comment_line, in_comment_block, otherThanStrip>>

\* lines 52-53
StringChar ==
    /\ i < length
    /\ ~(char = Q /\ ~in_comment_line /\ ~in_comment_block)
    /\ in_string
    /\ output' = Append(output, char)
    /\ i' = i + 1
    /\ UNCHANGED <<text, in_string, in_comment_line, in_comment_block, otherThanStrip>>

NotInStringBranch ==
    /\ i < length
    /\ ~(char = Q /\ ~in_comment_line /\ ~in_comment_block)
    /\ ~in_string

\* A variant that takes // as a comment start inside a string literal too
StartLineCommentInString ==
    /\ i < length
    /\ ~(char = Q /\ ~in_comment_line /\ ~in_comment_block)
    /\ ~in_comment_line /\ ~in_comment_block
    /\ char = S /\ next_char = S
    /\ in_comment_line' = TRUE
    /\ i' = i + 2
    /\ UNCHANGED <<text, in_string, in_comment_block, output, otherThanStrip>>

\* line 55
StartLineComment ==
    /\ NotInStringBranch
    /\ ~in_comment_line /\ ~in_comment_block
    /\ char = S /\ next_char = S
    /\ in_comment_line' = TRUE
    /\ i' = i + 2
    /\ UNCHANGED <<text, in_string, in_comment_block, output, otherThanStrip>>

\* line 56
StartBlockComment ==
    /\ NotInStringBranch
    /\ ~in_comment_line /\ ~in_comment_block
    /\ ~(char = S /\ next_char = S)
    /\ char = S /\ next_char = T
    /\ in_comment_block' = TRUE
    /\ i' = i + 2
    /\ UNCHANGED <<text, in_string, in_comment_line, output, otherThanStrip>>

StartsComment ==
    ~in_comment_line /\ ~in_comment_block /\ char = S /\ next_char \in {S, T}

\* lines 57-58
EndLineComment ==
    /\ NotInStringBranch
    /\ ~StartsComment
    /\ in_comment_line /\ char = NL
    /\ in_comment_line' = FALSE
    /\ output' = Append(output, char)
    /\ i' = i + 1
    /\ UNCHANGED <<text, in_string, in_comment_block, otherThanStrip>>

\* lines 59-60
EndBlockComment ==
    /\ NotInStringBranch
    /\ ~StartsComment
    /\ ~(in_comment_line /\ char = NL)
    /\ in_comment_block /\ char = T /\ next_char = S
    /\ in_comment_block' = FALSE
    /\ i' = i + 2
    /\ UNCHANGED <<text, in_string, in_comment_line, output, otherThanStrip>>

\* lines 61-63
PlainChar ==
    /\ NotInStringBranch
    /\ ~StartsComment
    /\ ~(in_comment_line /\ char = NL)
    /\ ~(in_comment_block /\ char = T /\ next_char = S)
    /\ output' = IF ~in_comment_line /\ ~in_comment_block
                 THEN Append(output, char) ELSE output
    /\ i' = i + 1
    /\ UNCHANGED <<text, in_string, in_comment_line, in_comment_block, otherThanStrip>>

\* line 44: the loop has ended and line 64 returns "".join(output)
StripDone == i >= length

StripNext ==
    \/ QuoteChar
    \/ StringChar
    \/ StartLineComment
    \/ StartBlockComment
    \/ EndLineComment
    \/ EndBlockComment
    \/ PlainChar


-----------------------------------------------------------------------------
(* JSON values: a tag t and a payload v.  A mapping's payload is a function *)
(* from keys to JSON values, an array's a sequence of JSON values.          *)

Num(n) == [t |-> "num", v |-> n]
Str(x) == [t |-> "str", v |-> x]
Arr(a) == [t |-> "arr", v |-> a]
Map(f) == [t |-> "map", v |-> f]
Null == [t |-> "null", v |-> 0]
EmptyMap == Map(<<>>)

IsMap(x) == x.t = "map"
Keys(m) == DOMAIN m.v
Has(m, k) == IsMap(m) /\ k \in Keys(m)

\* The outcome of a call that raised (TypeError or AttributeError).
Raised == [t |-> "raise", v |-> 0]

\* Python truthiness of a JSON value or of None (lines 102 and 115).
Truthy(x) ==
    CASE x.t \in {"null", "none"} -> FALSE
      [] x.t = "num" -> x.v # 0
      [] x.t = "str" -> x.v # ""
      [] x.t = "arr" -> x.v # <<>>
      [] x.t = "map" -> Keys(x) # {}
      [] OTHER -> TRUE

\* dict.get(k, default)
Get(m, k, default) == IF k \in Keys(m) THEN m.v[k] ELSE default

-----------------------------------------------------------------------------
(* _recursive_update(d, u): u is a mapping; d is whatever the caller found. *)
(* With d not a mapping, d.get (line 136) or d[k] = v (line 138) raises as  *)
(* soon as u has a key; with u empty the loop body never runs and d is      *)
(* returned as it is.                                                       *)

RECURSIVE RecursiveUpdate(_, _)

\* A variant that extends an array of d by the array of u
RecursiveUpdateExtendingArrays(d, u) ==
    IF Keys(u) = {} THEN d
    ELSE IF ~IsMap(d) THEN Raised
    ELSE LET new(k) ==
                 IF IsMap(u.v[k])
                 THEN RecursiveUpdate(Get(d, k, EmptyMap), u.v[k])
                 ELSE IF u.v[k].t = "arr" /\ k \in Keys(d) /\ d.v[k].t = "arr"
                 THEN Arr(d.v[k].v \o u.v[k].v)
                 ELSE u.v[k]
         IN  IF \E k \in Keys(u) : new(k) = Raised THEN Raised
             ELSE Map([k \in Keys(d) \cup Keys(u) |->
                          IF k \in Keys(u) THEN new(k) ELSE d.v[k]])

\* A variant that assigns every value of u outright (dict.update)
RecursiveUpdateShallow(d, u) ==
    IF Keys(u) = {} THEN d
    ELSE IF ~IsMap(d) THEN Raised
    ELSE Map([k \in Keys(d) \cup Keys(u) |->
                 IF k \in Keys(u) THEN u.v[k] ELSE d.v[k]])

RecursiveUpdate(d, u) ==
    IF Keys(u) = {} THEN d
    ELSE IF ~IsMap(d) THEN Raised
    ELSE LET new(k) ==
                 IF IsMap(u.v[k])
                 THEN RecursiveUpdate(Get(d, k, EmptyMap), u.v[k])
                 ELSE u.v[k]
         IN  IF \E k \in Keys(u) : new(k) = Raised THEN Raised
             ELSE Map([k \in Keys(d) \cup Keys(u) |->
                          IF k \in Keys(u) THEN new(k) ELSE d.v[k]])

-----------------------------------------------------------------------------
(* _expand_profiles *)

NoTopology == [t |-> "none", v |-> 0]
NotReturned == [t |-> "pending", v |-> 0]

\* line 104, line 105
profiles == Get(topology_content, "control_profiles_map", EmptyMap)
instances == Get(topology_content, "joint_actuator_mapping_map", EmptyMap)

\* line 114
ProfileId(instance_data) == Get(instance_data, "use_profile_ref_str", Null)

\* line 115
UsesKnownProfile(instance_data) ==
    /\ Truthy(ProfileId(instance_data))
    /\ ProfileId(instance_data).t = "str"
    /\ ProfileId(instance_data).v \in Keys(profiles)

\* A variant that falls back to a profile of the map when the reference names
\* none
BaseDataWithFallback(instance_data) ==
    IF UsesKnownProfile(instance_data)
    THEN profiles.v[ProfileId(instance_data).v]
    ELSE IF Keys(profiles) # {}
    THEN profiles.v[CHOOSE p \in Keys(profiles) : TRUE]
    ELSE EmptyMap

\* lines 111-117: the base the instance is merged onto; copy.deepcopy gives
\* an equal value
BaseData(instance_data) ==
    IF UsesKnownProfile(instance_data)
    THEN profiles.v[ProfileId(instance_data).v]
    ELSE EmptyMap

\* line 121
WithInstance(instance_data) == RecursiveUpdate(BaseData(instance_data), instance_data)

\* lines 124-125: final_data of one loop iteration, or Raised
FinalData(instance_data) ==
    LET merged == WithInstance(instance_data)
    IN  IF merged = Raised THEN Raised
        ELSE IF "overrides" \in Keys(instance_data)
        THEN IF IsMap(instance_data.v["overrides"])
             THEN RecursiveUpdate(merged, instance_data.v["overrides"])
             ELSE Raised
        ELSE merged

(* The bounded inputs *)

ProfileKp == {Num(1), Arr(<<Num(1)>>), Map([a |-> Num(1)])}
ProfileNested ==
    {Num(2), Map([a |-> Num(1), b |-> Num(2)]), Map([a |-> Map([c |-> Num(1)])])}
InstanceRef == {Str("P"), Str("X"), Null}
InstanceKp == {Num(9), EmptyMap, Map([a |-> Num(9)])}
InstanceNested ==
    {Num(9), Arr(<<Num(9)>>), Map([b |-> Num(9)]), Map([a |-> Map([c |-> Num(9)])])}
InstanceOverrides == {Map([kp |-> Num(2)]), Map([nested |-> Map([a |-> Num(2)])])}

\* The mappings that give each key of a subset of dom one of its values.
MapsOver(dom, valuesOf(_)) ==
    UNION {{Map(f) : f \in {g \in [ks -> UNION {valuesOf(k) : k \in ks}] :
                                \A k \in ks : g[k] \in valuesOf(k)}} :
           ks \in SUBSET dom}

ProfileValues(k) == IF k = "kp" THEN ProfileKp ELSE ProfileNested

InstanceValues(k) ==
    CASE k = "use_profile_ref_str" -> InstanceRef
      [] k = "kp" -> InstanceKp
      [] k = "nested" -> InstanceNested
      [] OTHER -> InstanceOverrides

Profiles == MapsOver({"kp", "nested"}, ProfileValues)
Instances == MapsOver({"use_profile_ref_str", "kp", "nested", "overrides"}, InstanceValues)

\* A second instance, visited after or before the first.
SecondInstances == {Map([use_profile_ref_str |-> Str("P"), nested |-> Map([a |-> Num(9)])])}

Topologies ==
    {Map([control_profiles_map |-> Map([P |-> p]),
          joint_actuator_mapping_map |-> Map([j1 |-> inst])]) :
        p \in Profiles, inst \in Instances}
    \cup {Map([control_profiles_map |-> Map([P |-> p]),
               joint_actuator_mapping_map |-> Map([j1 |-> inst, j2 |-> other])]) :
            p \in {Map([kp |-> Num(1), nested |-> Map([a |-> Num(1), b |-> Num(2)])])},
            inst \in Instances, other \in SecondInstances}
    \cup {Map([joint_actuator_mapping_map |-> Map([j1 |-> inst])]) : inst \in Instances}

\* The orders in which a dict of the given keys can be iterated.
KeyOrders(ks) ==
    {o \in [1..Cardinality(ks) -> ks] : \A a, b \in 1..Cardinality(ks) : a # b => o[a] # o[b]}

MergeIdle ==
    /\ topology_content = NoTopology
    /\ todo = <<>>
    /\ expanded_instances = EmptyMap
    /\ resolved_topology = NotReturned
    /\ raised = FALSE

MergeStart ==
    /\ topology_content \in Topologies \cup {NoTopology, EmptyMap}
    /\ todo \in IF IsMap(topology_content) THEN KeyOrders(Keys(instances)) ELSE {<<>>}
    /\ expanded_instances = EmptyMap
    /\ resolved_topology = NotReturned
    /\ raised = FALSE

Running == resolved_topology = NotReturned /\ ~raised

\* line 102: "if not topology_content: return {}"
ReturnEmpty ==
    /\ Running
    /\ ~Truthy(topology_content)
    /\ resolved_topology' = EmptyMap
    /\ UNCHANGED <<topology_content, todo, expanded_instances, raised, otherThanMerge>>

\* lines 109-127: one iteration of the loop that completes
ExpandInstance ==
    /\ Running
    /\ Truthy(topology_content)
    /\ todo # <<>>
    /\ LET key == Head(todo)
           final_data == FinalData(instances.v[key])
       IN  /\ final_data # Raised
           /\ expanded_instances' =
                  Map([k \in Keys(expanded_instances) \cup {key} |->
                          IF k = key THEN final_data ELSE expanded_instances.v[k]])
    /\ todo' = Tail(todo)
    /\ UNCHANGED <<topology_content, resolved_topology, raised, otherThanMerge>>

\* lines 109-127: one iteration of the loop in which a merge raises
ExpandRaises ==
    /\ Running
    /\ Truthy(topology_content)
    /\ todo # <<>>
    /\ FinalData(instances.v[Head(todo)]) = Raised
    /\ raised' = TRUE
    /\ UNCHANGED <<topology_content, todo, expanded_instances, resolved_topology, otherThanMerge>>

\* line 130
ReturnExpanded ==
    /\ Running
    /\ Truthy(topology_content)
    /\ todo = <<>>
    /\ resolved_topology' = Map([joint_actuator_mapping_map |-> expanded_instances])
    /\ UNCHANGED <<topology_content, todo, expanded_instances, raised, otherThanMerge>>

MergeNext ==
    \/ ReturnEmpty
    \/ ExpandInstance
    \/ ExpandRaises
    \/ ReturnExpanded

-----------------------------------------------------------------------------
(* Strings are sequences of characters, compared as Python compares str:    *)
(* by code point, a proper prefix first.                                    *)

\* The characters of the modelled names, in code point order.
CharOrder ==
    <<".", "0", "1", "2", "3", "4", "5", "6", "7", "8", "9", "A", "B", "_",
      "a", "b", "c", "d", "e", "f", "g", "h", "i", "j", "k", "l", "m", "n",
      "o", "p", "q", "r", "s", "t", "u", "v", "w", "x", "y", "z">>

Code(c) == CHOOSE k \in 1..Len(CharOrder) : CharOrder[k] = c

RECURSIVE StrLess(_, _)
StrLess(a, b) ==
    IF b = <<>> THEN FALSE
    ELSE IF a = <<>> THEN TRUE
    ELSE IF Head(a) = Head(b) THEN StrLess(Tail(a), Tail(b))
    ELSE Code(Head(a)) < Code(Head(b))

\* str.startswith, str.endswith, "p in s"
StartsWith(s, p) == Len(s) >= Len(p) /\ SubSeq(s, 1, Len(p)) = p
EndsWith(s, p) == Len(s) >= Len(p) /\ SubSeq(s, Len(s) - Len(p) + 1, Len(s)) = p
Contains(s, p) == \E k \in 0..(Len(s) - Len(p)) : SubSeq(s, k + 1, k + Len(p)) = p

\* str.rfind(c) + 1: the last position of c in s, 0 when there is none
RFind(s, c) ==
    IF \E k \in 1..Len(s) : s[k] = c
    THEN CHOOSE k \in 1..Len(s) : s[k] = c /\ \A j \in (k + 1)..Len(s) : s[j] # c
    ELSE 0

\* str.find(c) + 1
Find(s, c) ==
    IF \E k \in 1..Len(s) : s[k] = c
    THEN CHOOSE k \in 1..Len(s) : s[k] = c /\ \A j \in 1..(k - 1) : s[j] # c
    ELSE 0

\* PurePath.stem: the name up to its last dot, when that dot is neither the
\* first nor the last character
Stem(name) ==
    LET d == RFind(name, ".")
    IN  IF 1 < d /\ d < Len(name) THEN SubSeq(name, 1, d - 1) ELSE name

\* PurePath.with_suffix
WithSuffix(name, suffix) == Stem(name) \o suffix

\* s.split("_", 1)[0]
SplitHead(s) ==
    LET u == Find(s, "_") IN IF u = 0 THEN s ELSE SubSeq(s, 1, u - 1)

(* Names *)

spec == <<"s", "p", "e", "c">>
standard == <<"s", "t", "a", "n", "d", "a", "r", "d">>
benchmarks == <<"b", "e", "n", "c", "h", "m", "a", "r", "k", "s">>
unknown == <<"u", "n", "k", "n", "o", "w", "n">>
unified_spec == <<"u", "n", "i", "f", "i", "e", "d", "_", "s", "p", "e", "c">>
openrgd_unified_spec == <<"o", "p", "e", "n", "r", "g", "d", "_">> \o unified_spec
dot_jsonc == <<".", "j", "s", "o", "n", "c">>
dot_json == <<".", "j", "s", "o", "n">>
underscore_spec == <<"_", "s", "p", "e", "c">>

-----------------------------------------------------------------------------
(* detect_domain_from_relpath.  Line numbers in this part are those of     *)
(* commands/compiler.py; core/spec_unifier.py holds the same functions      *)
(* seven lines earlier.                                                     *)

DOMAIN_WEIGHTS ==
    <<[prefix |-> <<"0", "1", "_">>, w |-> 1],
      [prefix |-> <<"0", "2", "_">>, w |-> 2],
      [prefix |-> <<"0", "3", "_">>, w |-> 3],
      [prefix |-> <<"0", "4", "_">>, w |-> 4],
      [prefix |-> <<"0", "5", "_">>, w |-> 5],
      [prefix |-> <<"0", "6", "_">>, w |-> 6]>>

UnknownWeight == 999

\* The entries of DOMAIN_WEIGHTS whose prefix the part starts with
Matching(part) ==
    {k \in 1..Len(DOMAIN_WEIGHTS) : StartsWith(part, DOMAIN_WEIGHTS[k].prefix)}

\* The inner loop breaks at the first matching prefix
FirstMatching(part) == CHOOSE k \in Matching(part) : \A j \in Matching(part) : k <= j

\* The outer loop over rel_path.parts, which the break does not leave
RECURSIVE DetectFrom(_, _, _)
DetectFrom(parts, domain, weight) ==
    IF parts = <<>> THEN [domain |-> domain, weight |-> weight]
    ELSE IF Matching(Head(parts)) = {}
    THEN DetectFrom(Tail(parts), domain, weight)
    ELSE DetectFrom(Tail(parts), Head(parts), DOMAIN_WEIGHTS[FirstMatching(Head(parts))].w)

detect_domain_from_relpath(parts) == DetectFrom(parts, unknown, UnknownWeight)

-----------------------------------------------------------------------------
(* The file tree under root_dir.  A file is [path, content]; path is the    *)
(* sequence of its parts from root_dir, content is [kind, tag, domain,      *)
(* entries].  A source file's tag names its text; a generated document      *)
(* lists in entries the modules it embeds.                                  *)

Name(f) == f.path[Len(f.path)]

\* Path comparison: part by part
RECURSIVE PathLess(_, _)
PathLess(p, q) ==
    IF q = <<>> THEN FALSE
    ELSE IF p = <<>> THEN TRUE
    ELSE IF Head(p) = Head(q) THEN PathLess(Tail(p), Tail(q))
    ELSE StrLess(Head(p), Head(q))

\* dir.rglob("*" + suffix)
RGlob(fs, dir, suffix) ==
    {f \in fs : /\ Len(f.path) > Len(dir)
                /\ SubSeq(f.path, 1, Len(dir)) = dir
                /\ EndsWith(Name(f), suffix)}

\* open(path, "w"): the file is created or replaced
WriteFile(fs, path, content) ==
    {f \in fs : f.path # path} \cup {[path |-> path, content |-> content]}

\* generated_at is 0 where the text holds no generation time
SourceContent(tag) ==
    [kind |-> "source", tag |-> tag, domain |-> <<>>, entries |-> <<>>, generated_at |-> 0]

\* Whether json.loads(strip_jsonc(text)) returns: the text tagged "bad" is
\* not JSON once its comments are stripped.
Parses(content) == content.tag # "bad"

\* json.loads(strip_jsonc(text)): texts "c1", "c1_commented" and "c1_trail"
\* differ in their comments and white space only; a generated document
\* ("gen") loses its comments.
ParseTag(tag) ==
    CASE tag = "c1" -> "v1"
      [] tag = "c1_commented" -> "v1"
      [] tag = "c1_trail" -> "v1"
      [] tag = "c2" -> "v2"
      [] tag = "gen" -> "gen_json"
      [] OTHER -> tag

\* The generation time of a human document stands in a comment line, and the
\* modules it embeds are JSONC text in the document: parsing drops the
\* comments of both.
RECURSIVE Parsed(_)
Parsed(content) ==
    [content EXCEPT !.tag = ParseTag(content.tag),
                    !.generated_at = 0,
                    !.entries = [k \in 1..Len(content.entries) |->
                                    [content.entries[k] EXCEPT
                                        !.content = Parsed(content.entries[k].content)]]]

\* What a generated document holds of a module's content
Embedded(content) == content

(* sorted(...) and list.sort(...): stable insertion *)

RECURSIVE InsertByPath(_, _)
InsertByPath(f, s) ==
    IF s = <<>> THEN <<f>>
    ELSE IF PathLess(f.path, Head(s).path) THEN <<f>> \o s
    ELSE <<Head(s)>> \o InsertByPath(f, Tail(s))

RECURSIVE SortByPath(_)
SortByPath(s) ==
    IF s = <<>> THEN <<>> ELSE InsertByPath(s[Len(s)], SortByPath(SubSeq(s, 1, Len(s) - 1)))

\* A variant of the sort key that leaves the id out
SortKeyLessByWeight(r1, r2) == r1.weight < r2.weight

\* line 111: key=lambda x: (x["weight"], x["id"])
SortKeyLess(r1, r2) ==
    \/ r1.weight < r2.weight
    \/ r1.weight = r2.weight /\ StrLess(r1.id, r2.id)

RECURSIVE InsertByKey(_, _)
InsertByKey(r, s) ==
    IF s = <<>> THEN <<r>>
    ELSE IF SortKeyLess(r, Head(s)) THEN <<r>> \o s
    ELSE <<Head(s)>> \o InsertByKey(r, Tail(s))

RECURSIVE SortByKey(_)
SortByKey(s) ==
    IF s = <<>> THEN <<>> ELSE InsertByKey(s[Len(s)], SortByKey(SubSeq(s, 1, Len(s) - 1)))

RECURSIVE InsertById(_, _)
InsertById(r, s) ==
    IF s = <<>> THEN <<r>>
    ELSE IF StrLess(r.id, Head(s).id) THEN <<r>> \o s
    ELSE <<Head(s)>> \o InsertById(r, Tail(s))

RECURSIVE SortById(_)
SortById(s) ==
    IF s = <<>> THEN <<>> ELSE InsertById(s[Len(s)], SortById(SubSeq(s, 1, Len(s) - 1)))

(* The orders in which the file system may enumerate a set of files *)

RECURSIVE SetToSeq(_)
SetToSeq(fs) ==
    IF fs = {} THEN <<>>
    ELSE LET f == CHOOSE x \in fs : \A y \in fs : y = x \/ PathLess(x.path, y.path)
         IN  <<f>> \o SetToSeq(fs \ {f})

Rotate(s, k) == SubSeq(s, k + 1, Len(s)) \o SubSeq(s, 1, k)
Reverse(s) == [k \in 1..Len(s) |-> s[Len(s) + 1 - k]]

\* The orders in which the directory walk may hand over the files: path
\* order, reverse path order, and path order begun at the second file.
Enumerations(fs) ==
    LET base == SetToSeq(fs)
    IN  IF fs = {} THEN {<<>>}
        ELSE {base, Reverse(base), Rotate(base, 1)}

-----------------------------------------------------------------------------
(* scan_spec_records(root_dir, spec_dir), with spec_dir = root_dir / "spec" *)

spec_dir == <<spec>>
standard_dir == <<standard>>

\* A variant of the file list that keeps the order of enumeration
FileListUnsorted(enumerated) == enumerated

\* line 79: file_list = sorted(spec_dir.rglob("*.jsonc"))
FileList(enumerated) == SortByPath(enumerated)

\* line 82: the file is skipped as a previously generated unified spec
IsGeneratedName(name) == Contains(name, unified_spec)

\* lines 94-106
RecordOf(f) ==
    LET dw == detect_domain_from_relpath(f.path)
    IN  [path |-> f.path,
         id |-> Stem(Name(f)),
         domain |-> dw.domain,
         weight |-> dw.weight,
         raw_content |-> f.content,
         parsed_content |-> Parsed(f.content)]

\* A variant of the loop that a file that does not parse ends
RECURSIVE RecordsOfAborting(_)
RecordsOfAborting(file_list) ==
    IF file_list = <<>> THEN <<>>
    ELSE LET f == Head(file_list)
         IN  IF IsGeneratedName(Name(f)) THEN RecordsOfAborting(Tail(file_list))
             ELSE IF ~Parses(f.content) THEN <<>>
             ELSE <<RecordOf(f)>> \o RecordsOfAborting(Tail(file_list))

\* lines 81-108: one record per file that is not skipped and parses
RECURSIVE RecordsOf(_)
RecordsOf(file_list) ==
    IF file_list = <<>> THEN <<>>
    ELSE LET f == Head(file_list)
         IN  IF IsGeneratedName(Name(f)) \/ ~Parses(f.content)
             THEN RecordsOf(Tail(file_list))
             ELSE <<RecordOf(f)>> \o RecordsOf(Tail(file_list))

\* lines 78-112
scan_spec_records(enumerated) == SortByKey(RecordsOf(FileList(enumerated)))

-----------------------------------------------------------------------------
(* build_domain_maps *)

\* dict keys in insertion order: the domains of the records, by first
\* appearance, "unknown" left out (lines 124-129)
RECURSIVE DomainOrder(_, _)
DomainOrder(recs, seen) ==
    IF recs = <<>> THEN seen
    ELSE LET dom == Head(recs).domain
         IN  IF dom = unknown \/ \E k \in 1..Len(seen) : seen[k] = dom
             THEN DomainOrder(Tail(recs), seen)
             ELSE DomainOrder(Tail(recs), Append(seen, dom))

\* domain_map.get(dom, [])
DomainRecords(recs, dom) == SelectSeq(recs, LAMBDA r : r.domain = dom)

LowerChar(c) == CASE c = "A" -> "a" [] c = "B" -> "b" [] OTHER -> c
Lower(s) == [k \in 1..Len(s) |-> LowerChar(s[k])]

\* lines 133-138: the keys under which dom is entered in domain_aliases
AliasesOf(dom) ==
    LET lower_dom == Lower(dom)
        u == Find(lower_dom, "_")
    IN  IF u = 0 THEN {lower_dom}
        ELSE {lower_dom, SubSeq(lower_dom, 1, u - 1), SubSeq(lower_dom, u + 1, Len(lower_dom))}

NoDomain == <<>>

\* domain_aliases.get(selector): a later domain of the map overwrites the
\* entry of an earlier one
AliasLookup(recs, selector) ==
    LET order == DomainOrder(recs, <<>>)
        hits == {k \in 1..Len(order) : selector \in AliasesOf(order[k])}
    IN  IF hits = {} THEN NoDomain
        ELSE order[CHOOSE k \in hits : \A j \in hits : j <= k]

-----------------------------------------------------------------------------
(* The document builders *)

Document(kind, dom, entries) ==
    [kind |-> kind, tag |-> "gen", domain |-> dom, entries |-> entries, generated_at |-> Now]

HumanEntries(recs) ==
    [k \in 1..Len(recs) |->
        [path |-> recs[k].path, id |-> recs[k].id, domain |-> recs[k].domain,
         content |-> Embedded(recs[k].raw_content)]]

MachineEntries(recs) ==
    [k \in 1..Len(recs) |->
        [path |-> recs[k].path, id |-> recs[k].id, domain |-> recs[k].domain,
         content |-> Embedded(recs[k].parsed_content)]]

\* generate_machine_unified_from_records
generate_machine_unified_from_records(fs, recs, out_dir, output_base) ==
    WriteFile(fs, out_dir \o <<output_base \o dot_json>>,
              Document("MACHINE_TWIN_CLEAN", <<>>, MachineEntries(recs)))

\* generate_human_unified_from_records
generate_human_unified_from_records(fs, recs, out_dir, output_base) ==
    WriteFile(fs, out_dir \o <<output_base \o dot_jsonc>>,
              Document("HUMAN_TWIN_WITH_COMMENTS", <<>>, HumanEntries(recs)))

\* ensure_standard_from_spec, lines 246-260: the files of file_list are
\* mirrored in turn; json.loads is not guarded, so the first file that does
\* not parse ends the command with the files before it mirrored
RECURSIVE MirrorAll(_, _)
MirrorAll(fs, file_list) ==
    IF file_list = <<>> THEN [fs |-> fs, raised |-> FALSE]
    ELSE LET f == Head(file_list)
             rel == SubSeq(f.path, Len(spec_dir) + 1, Len(f.path) - 1)
             target == standard_dir \o rel \o <<WithSuffix(Name(f), dot_json)>>
         IN  IF IsGeneratedName(Name(f)) THEN MirrorAll(fs, Tail(file_list))
             ELSE IF ~Parses(f.content) THEN [fs |-> fs, raised |-> TRUE]
             ELSE MirrorAll(WriteFile(fs, target, Parsed(f.content)), Tail(file_list))

ensure_standard_from_spec(fs, enumerated) == MirrorAll(fs, SortByPath(enumerated))

\* generate_machine_unified_from_standard, lines 276-300: the records of
\* the JSON files under /standard
RECURSIVE StandardRecords(_)
StandardRecords(file_list) ==
    IF file_list = <<>> THEN <<>>
    ELSE LET f == Head(file_list)
             dw == detect_domain_from_relpath(f.path)
         IN  IF Contains(Name(f), unified_spec) \/ EndsWith(Name(f), underscore_spec \o dot_json)
             THEN StandardRecords(Tail(file_list))
             ELSE <<[path |-> f.path, id |-> Stem(Name(f)), domain |-> dw.domain,
                     weight |-> dw.weight, parsed_content |-> f.content]>>
                  \o StandardRecords(Tail(file_list))

generate_machine_unified_from_standard(fs, enumerated, output_base) ==
    WriteFile(fs, standard_dir \o <<output_base \o dot_json>>,
              Document("MACHINE_TWIN_FROM_STANDARD", <<>>,
                       MachineEntries(SortByKey(StandardRecords(SortByPath(enumerated))))))

\* shutil.copy2(src, dst) when src exists (lines 499-517)
CopyIfExists(fs, src, dst) ==
    IF \E f \in fs : f.path = src
    THEN WriteFile(fs, dst, (CHOOSE f \in fs : f.path = src).content)
    ELSE fs

\* sorted(domain_map.keys())
RECURSIVE InsertStr(_, _)
InsertStr(x, s) ==
    IF s = <<>> THEN <<x>>
    ELSE IF StrLess(x, Head(s)) THEN <<x>> \o s
    ELSE <<Head(s)>> \o InsertStr(x, Tail(s))

RECURSIVE SortStrs(_)
SortStrs(s) ==
    IF s = <<>> THEN <<>> ELSE InsertStr(s[Len(s)], SortStrs(SubSeq(s, 1, Len(s) - 1)))

\* generate_domain_bundles, lines 351-428: the bundle pair of each domain of
\* domain_ids in turn
RECURSIVE WriteBundles(_, _, _)
WriteBundles(fs, recs, domain_ids) ==
    IF domain_ids = <<>> THEN fs
    ELSE LET dom == Head(domain_ids)
             members == SortById(DomainRecords(recs, dom))
             base_name == SplitHead(dom) \o underscore_spec
             withJson == WriteFile(fs, standard_dir \o <<base_name \o dot_json>>,
                                   Document("DOMAIN_MACHINE_TWIN", dom, MachineEntries(members)))
             withBoth == WriteFile(withJson, spec_dir \o <<base_name \o dot_jsonc>>,
                                   Document("DOMAIN_HUMAN_TWIN_WITH_COMMENTS", dom,
                                            HumanEntries(members)))
         IN  IF members = <<>> THEN WriteBundles(fs, recs, Tail(domain_ids))
             ELSE WriteBundles(withBoth, recs, Tail(domain_ids))

generate_domain_bundles(fs, recs, target_domains) ==
    WriteBundles(fs, recs,
                 IF target_domains = <<>> THEN SortStrs(DomainOrder(recs, <<>>))
                 ELSE target_domains)

-----------------------------------------------------------------------------
(* The commands *)

MaxSrc == 2
MaxBuilds == 1

src(dir, stem, tag) ==
    [path |-> spec_dir \o dir \o <<stem \o dot_jsonc>>, content |-> SourceContent(tag)]

d_01_a == <<"0", "1", "_", "a">>
d_01_b == <<"0", "1", "_", "b">>
d_02_b == <<"0", "2", "_", "b">>
d_03_s == <<"0", "3", "_", "s">>

\* The source files a tree is made of
SourceUniverse ==
    {src(<<d_01_a>>, <<"k">>, "c1"),
     src(<<d_01_b>>, <<"k">>, "c1_commented"),
     src(<<d_01_b>>, <<"a">>, "c2"),
     src(<<d_02_b>>, <<"a">>, "c1"),
     src(<<<<"m">>>>, <<"b">>, "c2"),
     src(<<d_01_a, d_03_s>>, <<"a">>, "c2"),
     src(<<d_01_a>>, <<"0", "2", "_", "x">>, "c1"),
     src(<<d_02_b>>, <<"z">>, "bad")}

OutputBases == {openrgd_unified_spec, <<"a", "l", "l">>}

Selectors == {<<"0", "1">>, <<"a">>, <<"0", "2", "_", "b">>, <<"z", "z">>}

\* --domain not given, or given as the empty string (line 529: if domain)
NoSelector == <<>>

Command(mode, domain, output_base) ==
    [mode |-> mode, domain |-> domain, output_base |-> output_base]

NoCommand == Command("none", NoSelector, <<>>)

Report(human, machine, output_base, code) ==
    [human |-> human, machine |-> machine, output_base |-> output_base, exit_code |-> code]

NoReport == Report("none", "none", <<>>, 0)

IntegrityIdle ==
    /\ report = NoReport
    /\ checks = 0
    /\ edits = 0

ScanIdle ==
    /\ files = {}
    /\ source_files = {}
    /\ records = <<>>
    /\ prev_records = <<>>
    /\ scans = 0
    /\ builds = 0
    /\ exit_code = 0
    /\ command = NoCommand

ScanStart ==
    /\ files \in {fs \in SUBSET SourceUniverse : 1 <= Cardinality(fs) /\ Cardinality(fs) <= MaxSrc}
    /\ source_files = files
    /\ records = <<>>
    /\ prev_records = <<>>
    /\ scans = 0
    /\ builds = 0
    /\ exit_code = 0
    /\ command = NoCommand

\* scan_spec_records, as check_integrity calls it (integrity.py line 96); the
\* tree is not changed, the previous result is kept for comparison
Scan ==
    /\ files # {}
    /\ \E e \in Enumerations(RGlob(files, spec_dir, dot_jsonc)) :
           records' = scan_spec_records(e)
    /\ prev_records' = records
    /\ scans' = IF scans < 2 THEN scans + 1 ELSE 2
    /\ UNCHANGED <<files, source_files, builds, exit_code, command, integrityVars, otherThanScan>>

CanBuild == files # {} /\ builds < MaxBuilds

Built(fs, code, cmd) ==
    /\ files' = fs
    /\ exit_code' = code
    /\ command' = cmd
    /\ builds' = builds + 1
    /\ records' = <<>>
    /\ prev_records' = <<>>
    /\ scans' = 0
    /\ report' = NoReport
    /\ UNCHANGED <<source_files, checks, edits, otherThanScan>>

\* compile_spec, default mode (lines 547-552)
CompileDefault ==
    /\ CanBuild
    /\ \E output_base \in OutputBases, e \in Enumerations(RGlob(files, spec_dir, dot_jsonc)) :
           LET recs == scan_spec_records(e)
               withMachine == generate_machine_unified_from_records(files, recs, spec_dir, output_base)
           IN  Built(generate_human_unified_from_records(withMachine, recs, spec_dir, output_base),
                     0, Command("default", NoSelector, output_base))

\* compile_spec --domain, the selector is an alias (lines 530-545)
CompileDomain ==
    /\ CanBuild
    /\ \E domain \in Selectors, e \in Enumerations(RGlob(files, spec_dir, dot_jsonc)) :
           LET recs == scan_spec_records(e)
               dom == AliasLookup(recs, Lower(domain))
           IN  /\ dom # NoDomain
               /\ Built(generate_domain_bundles(files, recs, <<dom>>), 0,
                        Command("domain", domain, openrgd_unified_spec))

\* compile_spec --domain, the selector is no alias (lines 533-537)
CompileUnknownDomain ==
    /\ CanBuild
    /\ \E domain \in Selectors, e \in Enumerations(RGlob(files, spec_dir, dot_jsonc)) :
           /\ AliasLookup(scan_spec_records(e), Lower(domain)) = NoDomain
           /\ Built(files, 1, Command("domain", domain, openrgd_unified_spec))

\* The tree after the steps of the full pipeline that follow the mirroring
\* (lines 487-525)
AfterMirror(fs, recs, output_base) ==
    LET withHuman == generate_human_unified_from_records(fs, recs, spec_dir, output_base)
        withMachine == generate_machine_unified_from_standard(
                           withHuman, SetToSeq(RGlob(withHuman, standard_dir, dot_json)),
                           output_base)
        benchmark_dir == standard_dir \o <<benchmarks>>
        withJsonc == CopyIfExists(withMachine, spec_dir \o <<output_base \o dot_jsonc>>,
                                  benchmark_dir \o <<output_base \o dot_jsonc>>)
        withJson == CopyIfExists(withJsonc, standard_dir \o <<output_base \o dot_json>>,
                                 benchmark_dir \o <<output_base \o dot_json>>)
    IN  generate_domain_bundles(withJson, recs, <<>>)

\* The selectors --def is combined with: the option is not read in this mode
FullSelectors == {NoSelector, <<"z", "z">>}

\* compile_spec --def (lines 483-527); --domain may be given as well, the
\* function returns at line 527 before reading it
CompileFull ==
    /\ CanBuild
    /\ \E e \in Enumerations(RGlob(files, spec_dir, dot_jsonc)) :
           LET recs == scan_spec_records(e)
               mirrored == ensure_standard_from_spec(files, e)
           IN  /\ ~mirrored.raised
               /\ \E output_base \in OutputBases :
                      LET written == AfterMirror(mirrored.fs, recs, output_base)
                      IN  \E domain \in FullSelectors :
                              Built(written, 0, Command("full", domain, output_base))

\* compile_spec --def, ended by the exception of ensure_standard_from_spec
CompileFullRaises ==
    /\ CanBuild
    /\ \E e \in Enumerations(RGlob(files, spec_dir, dot_jsonc)) :
           LET mirrored == ensure_standard_from_spec(files, e)
           IN  /\ mirrored.raised
               /\ Built(mirrored.fs, 1, Command("full", NoSelector, openrgd_unified_spec))

ScanNext ==
    \/ Scan
    \/ CompileDefault
    \/ CompileDomain
    \/ CompileUnknownDomain
    \/ CompileFull
    \/ CompileFullRaises

-----------------------------------------------------------------------------
(* The text of the human documents.  A line is a sequence of pieces of text; *)
(* white space and the marker "Generated at:" are pieces of their own.       *)

GeneratedAtMarker == "Generated at:"
WhiteSpace == {" ", "\t"}

RECURSIVE RStrip(_)
RStrip(line) ==
    IF line # <<>> /\ line[Len(line)] \in WhiteSpace
    THEN RStrip(SubSeq(line, 1, Len(line) - 1))
    ELSE line

RECURSIVE LStrip(_)
LStrip(line) ==
    IF line # <<>> /\ Head(line) \in WhiteSpace THEN LStrip(Tail(line)) ELSE line

Blank(line) == RStrip(line) = <<>>

\* str.strip() of a text of several lines
RECURSIVE StripText(_)
StripText(lines) ==
    IF lines = <<>> THEN <<>>
    ELSE IF Blank(Head(lines)) THEN StripText(Tail(lines))
    ELSE IF Blank(lines[Len(lines)]) THEN StripText(SubSeq(lines, 1, Len(lines) - 1))
    ELSE IF Len(lines) = 1 THEN <<RStrip(LStrip(lines[1]))>>
    ELSE <<LStrip(Head(lines))>> \o SubSeq(lines, 2, Len(lines) - 1)
         \o <<RStrip(lines[Len(lines)])>>

\* The texts of the source files
SourceLines(tag) ==
    CASE tag = "c1" -> <<<<"{">>, <<"1", "}">>>>
      [] tag = "c1_commented" -> <<<<"//", "c">>, <<"{">>, <<"1", "}">>>>
      [] tag = "c1_trail" -> <<<<"{", " ">>, <<"1", "}">>>>
      [] tag = "c2" -> <<<<"{">>, <<"2", "}">>>>
      [] OTHER -> <<<<"{">>>>

\* indent_block (lines 40-45)
indent_block(lines) ==
    [k \in 1..Len(lines) |-> IF Blank(lines[k]) THEN lines[k] ELSE <<" ">> \o lines[k]]

RECURSIVE JoinPath(_)
JoinPath(parts) ==
    IF parts = <<>> THEN <<>>
    ELSE IF Len(parts) = 1 THEN parts[1]
    ELSE parts[1] \o <<"/">> \o JoinPath(Tail(parts))

RECURSIVE Concat(_)
Concat(blocks) == IF blocks = <<>> THEN <<>> ELSE Head(blocks) \o Concat(Tail(blocks))

TimeText(t) == <<"0", "1", "2", "3", "4", "5", "6", "7", "8", "9">>[t + 1]

\* The lines generate_human_unified_from_records and the human half of
\* generate_domain_bundles write (lines 190-226, 389-421); the fourth line
\* holds the generation time
RECURSIVE HumanLines(_)
HumanLines(doc) ==
    LET raw(content) ==
            IF content.kind = "source" THEN StripText(SourceLines(content.tag))
            ELSE StripText(HumanLines(content))
        entry(k) ==
            <<<<" ", "{">>,
              <<" ", "path", ":">> \o JoinPath(doc.entries[k].path),
              <<" ", "id", ":">> \o doc.entries[k].id,
              <<" ", "domain", ":">> \o doc.entries[k].domain,
              <<" ", "content", ":", " ">>>>
            \o indent_block(raw(doc.entries[k].content))
            \o <<IF k < Len(doc.entries) THEN <<" ", "}", ",">> ELSE <<" ", "}">>>>
    IN  <<<<"//", "=">>,
          <<"//", " ", doc.kind>> \o doc.domain,
          <<"//", "-">>,
          <<"//", " ", GeneratedAtMarker, " ", TimeText(doc.generated_at)>>,
          <<"//", "=">>,
          <<>>,
          <<"{">>,
          <<" ", "type", ":", doc.kind>> \o doc.domain,
          <<" ", "files", ":", "[">>>>
        \o Concat([k \in 1..Len(doc.entries) |-> entry(k)])
        \o <<<<" ", "]">>, <<"}">>>>

\* _GENERATED_AT_RE.search(line)
HasMarker(line) == \E k \in 1..Len(line) : line[k] = GeneratedAtMarker

\* normalize_human_jsonc (spec_unifier.py lines 431-448)
normalize_human_jsonc(lines) ==
    LET kept == SelectSeq(lines, LAMBDA line : ~HasMarker(line))
    IN  [k \in 1..Len(kept) |-> RStrip(kept[k])]

\* _normalize_machine_json (integrity.py lines 30-48): meta.pop("generated_at")
normalize_machine_json(doc) == [doc EXCEPT !.generated_at = 0]

\* json.load gives Python values, and == of Python takes True for 1 (and 1.0):
\* the content parsed from "true" where another holds "1" compares equal to it
PyValue(tag) == IF tag = "v1_true" THEN "v1" ELSE tag

RECURSIVE PyForm(_)
PyForm(doc) ==
    [doc EXCEPT !.tag = PyValue(doc.tag),
                !.entries = [k \in 1..Len(doc.entries) |->
                                [doc.entries[k] EXCEPT
                                    !.content = PyForm(doc.entries[k].content)]]]

\* current_json_norm == bench_json_norm (integrity.py line 128)
PyEqual(a, b) == PyForm(a) = PyForm(b)

-----------------------------------------------------------------------------
(* check_integrity *)

MaxSteps == 3

\* The commands and edits so far
Steps == builds + checks + edits

HasDir(fs, dir) ==
    {f \in fs : Len(f.path) > Len(dir) /\ SubSeq(f.path, 1, Len(dir)) = dir} # {}

Exists(fs, path) == {f \in fs : f.path = path} # {}

ContentAt(fs, path) == (CHOOSE f \in fs : f.path = path).content

benchmark_dir == standard_dir \o <<benchmarks>>

Verdict(match) == IF match THEN "OK" ELSE "MISMATCH"

\* A variant of the verdict that looks at the machine comparison only
ExitCodeOfMachineOnly(jsonc_match, json_match) == IF json_match THEN 0 ELSE 1

\* lines 139-144
ExitCode(jsonc_match, json_match) == IF jsonc_match /\ json_match THEN 0 ELSE 1

\* The source files of the trees the integrity check is run on
IntegrityUniverse ==
    {src(<<d_01_a>>, <<"k">>, "c1"),
     src(<<<<"m">>>>, <<"b">>, "c1"),
     src(<<d_01_b>>, <<"a">>, "c2")}

EditTexts == {"c1", "c1_trail", "c2"}

IntegrityStart ==
    /\ files \in {fs \in SUBSET IntegrityUniverse :
                     1 <= Cardinality(fs) /\ Cardinality(fs) <= MaxSrc}
    /\ source_files = files
    /\ records = <<>>
    /\ prev_records = <<>>
    /\ scans = 0
    /\ builds = 0
    /\ exit_code = 0
    /\ command = NoCommand
    /\ IntegrityIdle

\* A source file is rewritten by its author
EditSource ==
    /\ Steps < MaxSteps
    /\ \E f \in files, tag \in EditTexts :
           /\ f.content.kind = "source"
           /\ f.path[1] = spec
           /\ tag # f.content.tag
           /\ files' = WriteFile(files, f.path, SourceContent(tag))
    /\ edits' = edits + 1
    /\ report' = NoReport
    /\ records' = <<>>
    /\ prev_records' = <<>>
    /\ scans' = 0
    /\ UNCHANGED <<source_files, builds, exit_code, command, checks, otherThanScan>>

Checked(fs, rep) ==
    /\ files' = fs
    /\ report' = rep
    /\ checks' = checks + 1
    /\ records' = <<>>
    /\ prev_records' = <<>>
    /\ scans' = 0
    /\ UNCHANGED <<source_files, builds, exit_code, command, edits, otherThanScan>>

HasBenchmarks(output_base) ==
    /\ HasDir(files, spec_dir)
    /\ HasDir(files, standard_dir)
    /\ Exists(files, benchmark_dir \o <<output_base \o dot_jsonc>>)
    /\ Exists(files, benchmark_dir \o <<output_base \o dot_json>>)

\* check_integrity, lines 79-88: a directory or a benchmark file is missing
CheckIntegrityMissing ==
    /\ Steps < MaxSteps
    /\ \E output_base \in OutputBases :
           /\ ~HasBenchmarks(output_base)
           /\ Checked(files, Report("none", "none", output_base, 1))

\* check_integrity, lines 90-144
CheckIntegrity ==
    /\ Steps < MaxSteps
    /\ \E output_base \in OutputBases, e \in Enumerations(RGlob(files, spec_dir, dot_jsonc)) :
           LET recs == scan_spec_records(e)
               withHuman == generate_human_unified_from_records(files, recs, spec_dir, output_base)
               current_jsonc == ContentAt(withHuman, spec_dir \o <<output_base \o dot_jsonc>>)
               bench_jsonc == ContentAt(withHuman, benchmark_dir \o <<output_base \o dot_jsonc>>)
               jsonc_match == normalize_human_jsonc(HumanLines(current_jsonc))
                                  = normalize_human_jsonc(HumanLines(bench_jsonc))
               withMachine == generate_machine_unified_from_standard(
                                  withHuman, SetToSeq(RGlob(withHuman, standard_dir, dot_json)),
                                  output_base)
               current_json == ContentAt(withMachine, standard_dir \o <<output_base \o dot_json>>)
               bench_json == ContentAt(withMachine, benchmark_dir \o <<output_base \o dot_json>>)
               json_match == PyEqual(normalize_machine_json(current_json),
                                     normalize_machine_json(bench_json))
           IN  /\ HasBenchmarks(output_base)
               /\ Checked(withMachine,
                          Report(Verdict(jsonc_match), Verdict(json_match), output_base,
                                 ExitCode(jsonc_match, json_match)))

\* compile_spec --def, within the steps of an integrity scenario
BuildBenchmarks == Steps < MaxSteps /\ CompileFull

IntegrityNext ==
    \/ BuildBenchmarks
    \/ EditSource
    \/ CheckIntegrityMissing
    \/ CheckIntegrity

-----------------------------------------------------------------------------
(* The machine comparison of check_integrity (integrity.py lines 120-133),  *)
(* on any two machine documents                                             *)

NoDocument ==
    [kind |-> "none", tag |-> "none", domain |-> <<>>, entries |-> <<>>, generated_at |-> 0]

mirror(dir, stem, tag) ==
    [path |-> standard_dir \o dir \o <<stem \o dot_json>>, content |-> SourceContent(tag)]

\* Files of a /standard mirror: one module with three contents, a module of
\* the same id in another domain, and a module of another id
MirrorUniverse ==
    {mirror(<<d_01_a>>, <<"k">>, "v1"),
     mirror(<<d_01_a>>, <<"k">>, "v1_true"),
     mirror(<<d_01_a>>, <<"k">>, "v2"),
     mirror(<<d_01_b>>, <<"k">>, "v1"),
     mirror(<<d_01_a>>, <<"a">>, "v1")}

\* The lists of at most two mirror files of different paths, in any order
MirrorLists ==
    {<<>>} \cup {<<f>> : f \in MirrorUniverse}
           \cup {pair \in {<<f, g>> : f \in MirrorUniverse, g \in MirrorUniverse} :
                     pair[1].path # pair[2].path}

GenerationTimes == {1, 2}

\* Machine documents as the builders write them (compiler.py lines 155-170
\* and 304-313), read back by json.load
MachineDocs ==
    {[kind |-> kind, tag |-> "gen", domain |-> <<>>,
      entries |-> MachineEntries(StandardRecords(file_list)), generated_at |-> t] :
        kind \in {"MACHINE_TWIN_FROM_STANDARD", "MACHINE_TWIN_CLEAN"},
        file_list \in MirrorLists,
        t \in GenerationTimes}

CompareIdle ==
    /\ left_doc = NoDocument
    /\ right_doc = NoDocument
    /\ compared = "none"

CompareStart ==
    /\ left_doc \in MachineDocs
    /\ right_doc \in MachineDocs
    /\ compared = "none"

\* lines 125-133
CompareMachine ==
    /\ compared = "none"
    /\ compared' = Verdict(PyEqual(normalize_machine_json(left_doc),
                                   normalize_machine_json(right_doc)))
    /\ UNCHANGED <<left_doc, right_doc, otherThanCompare>>

CompareNext ==
    \/ CompareMachine

-----------------------------------------------------------------------------
(* ROS2Bridge.generate, lines 47-77: the three source maps are merged into  *)
(* the joints map, one key of all_keys at a time. all_keys is a set: its    *)
(* keys are visited in any order.                                           *)

\* line 64
ReservedKeys == {"meta_group", "__doc__"}

\* lines 66-68
PhysOf(key) == Get(phys_data, key, EmptyMap)
TopoOf(key) == Get(topo_data, key, EmptyMap)
HalOf(key) == Get(hal_data, key, EmptyMap)

\* "a or b or c or d": the first operand that is truthy, else the last
FirstTruthy(s) ==
    IF \E k \in 1..Len(s) : Truthy(s[k])
    THEN s[CHOOSE k \in 1..Len(s) : Truthy(s[k]) /\ \A j \in 1..(k - 1) : ~Truthy(s[j])]
    ELSE s[Len(s)]

\* A variant of the resolution that asks the physics map first
JointNamePhysicsFirst(key) ==
    FirstTruthy(<<Get(PhysOf(key), "target_joint_ref_str", Null),
                  Get(TopoOf(key), "target_joint_ref_str", Null),
                  Get(HalOf(key), "logical_actuator_ref_str", Null),
                  Str(key)>>)

\* line 71
JointName(key) ==
    FirstTruthy(<<Get(TopoOf(key), "target_joint_ref_str", Null),
                  Get(PhysOf(key), "target_joint_ref_str", Null),
                  Get(HalOf(key), "logical_actuator_ref_str", Null),
                  Str(key)>>)

\* lines 73-77
JointRecord(key) ==
    Map([physics |-> PhysOf(key), topology |-> TopoOf(key), hal |-> HalOf(key)])

(* The bounded inputs *)

PhysJoint ==
    {Map([max |-> Num(1)]),
     Map([max |-> Num(1), target_joint_ref_str |-> Str("joint_p")])}

TopoJoint ==
    {Map([kp |-> Num(1)]),
     Map([kp |-> Num(1), target_joint_ref_str |-> Str("joint_one")]),
     Map([kp |-> Num(1), target_joint_ref_str |-> Str("")])}

HalJoint ==
    {Map([can |-> Num(1)]),
     Map([can |-> Num(1), logical_actuator_ref_str |-> Str("joint_two")])}

PhysValues(k) == IF k \in ReservedKeys THEN {Str("limits")} ELSE PhysJoint
TopoValues(k) == TopoJoint
HalValues(k) == HalJoint

PhysMaps == MapsOver({"j1", "joint_one", "meta_group"}, PhysValues)
TopoMaps == MapsOver({"j1", "act1"}, TopoValues)
HalMaps == MapsOver({"j1"}, HalValues)

\* _extract_val (lines 141-157)
sub_containers ==
    <<"limits", "application_limits", "joint_limits", "control_defaults",
      "position_mode_gains", "velocity_mode_gains", "advanced_impedance_model",
      "transmission_config">>

FirstKeyIn(data, keys) == CHOOSE k \in 1..Len(keys) :
    /\ keys[k] \in Keys(data)
    /\ \A j \in 1..(k - 1) : keys[j] \notin Keys(data)

HoldsOneOf(data, keys) == {k \in 1..Len(keys) : keys[k] \in Keys(data)} # {}

extract_val(data, keys, default) ==
    IF HoldsOneOf(data, keys) THEN data.v[keys[FirstKeyIn(data, keys)]]
    ELSE LET holds(n) == /\ sub_containers[n] \in Keys(data)
                         /\ IsMap(data.v[sub_containers[n]])
                         /\ HoldsOneOf(data.v[sub_containers[n]], keys)
             found == {n \in 1..Len(sub_containers) : holds(n)}
         IN  IF found = {} THEN default
             ELSE LET n == CHOOSE x \in found : \A y \in found : x <= y
                      sub == data.v[sub_containers[n]]
                  IN  sub.v[keys[FirstKeyIn(sub, keys)]]

\* lines 187-189
ExplicitGains(topo) ==
    [p |-> extract_val(topo, <<"kp_position_float", "kp">>, Num(0)),
     i |-> extract_val(topo, <<"ki_position_float", "ki">>, Num(0)),
     d |-> extract_val(topo, <<"kd_position_float", "kd">>, Num(0))]

\* A variant of the gains that never turns to stiffness and damping
GainsWithoutImpedance(topo) == ExplicitGains(topo)

\* lines 187-198
Gains(topo) ==
    LET g == ExplicitGains(topo)
        stiff == extract_val(topo, <<"stiffness_nm_rad_float", "stiffness">>, Num(0))
        damp == extract_val(topo, <<"damping_nms_rad_float", "damping">>, Num(0))
    IN  IF g.p.v = 0 /\ g.d.v = 0 /\ stiff.v > 0
        THEN [g EXCEPT !.p = stiff, !.d = damp]
        ELSE g

\* line 200
EmitsGains(g) == g.p.v > 0 \/ g.d.v > 0

\* sorted(joints_map.keys()) (line 178): the joint names of the model in the
\* order in which Python sorts them
SortedNames == <<"act1", "j1", "j2", "joint_one", "joint_p", "joint_two">>

Yaml(state, joints, gains) == [state |-> state, joints |-> joints, gains |-> gains]

ExportIdle ==
    /\ phys_data = EmptyMap
    /\ topo_data = EmptyMap
    /\ hal_data = EmptyMap
    /\ all_keys = {}
    /\ joints_map = EmptyMap
    /\ control_yaml = Yaml("idle", <<>>, {})

\* lines 49-61
ExportStart ==
    /\ phys_data \in PhysMaps
    /\ topo_data \in TopoMaps
    /\ hal_data \in HalMaps
    /\ all_keys = Keys(phys_data) \cup Keys(topo_data) \cup Keys(hal_data)
    /\ joints_map = EmptyMap
    /\ control_yaml = Yaml("pending", <<>>, {})

\* line 64: a reserved key is passed over
SkipReservedKey ==
    /\ \E key \in all_keys :
           /\ key \in ReservedKeys
           /\ all_keys' = all_keys \ {key}
    /\ UNCHANGED <<phys_data, topo_data, hal_data, joints_map, control_yaml, otherThanExport>>

\* lines 66-77: one iteration of the loop
MapJoint ==
    /\ \E key \in all_keys :
           /\ key \notin ReservedKeys
           /\ LET joint_name == JointName(key).v
              IN  joints_map' =
                      Map([n \in Keys(joints_map) \cup {joint_name} |->
                              IF n = joint_name THEN JointRecord(key) ELSE joints_map.v[n]])
           /\ all_keys' = all_keys \ {key}
    /\ UNCHANGED <<phys_data, topo_data, hal_data, control_yaml, otherThanExport>>

\* _generate_ros2_control_yaml (lines 159-205), called at line 82 once the
\* loop has ended: the joints section and the gains section of the file. The
\* gains lines follow the order of the dict; they are kept as a set.
GenerateControlYaml ==
    /\ all_keys = {}
    /\ control_yaml.state = "pending"
    /\ control_yaml' =
           Yaml("written",
                SelectSeq(SortedNames, LAMBDA name : name \in Keys(joints_map)),
                {[name |-> name,
                  p |-> Gains(joints_map.v[name].v.topology).p.v,
                  i |-> Gains(joints_map.v[name].v.topology).i.v,
                  d |-> Gains(joints_map.v[name].v.topology).d.v] :
                    name \in {n \in Keys(joints_map) :
                                 EmitsGains(Gains(joints_map.v[n].v.topology))}})
    /\ UNCHANGED <<phys_data, topo_data, hal_data, all_keys, joints_map, otherThanExport>>

ExportNext ==
    \/ SkipReservedKey
    \/ MapJoint
    \/ GenerateControlYaml

(* The joints maps of the gains section *)

Field(k, x) == IF x = Null THEN <<>> ELSE <<<<k, x>>>>

\* The mapping of the given pairs of key and value
MapOfPairs(pairs) ==
    Map([k \in {pairs[n][1] : n \in 1..Len(pairs)} |->
            pairs[CHOOSE n \in 1..Len(pairs) : pairs[n][1] = k][2]])

GainTopologies ==
    {MapOfPairs(Field("kp", kp) \o Field("ki", ki) \o Field("kd", kd)
                \o Field("stiffness", st) \o Field("damping", da)
                \o Field("control_defaults", cd)) :
        kp \in {Null, Num(0), Num(5), Num(-1)},
        ki \in {Null, Num(3)},
        kd \in {Null, Num(0), Num(2)},
        st \in {Null, Num(0), Num(50)},
        da \in {Null, Num(2)},
        cd \in {Null, Map([kp |-> Num(7)])}}

JointWith(topo) == Map([physics |-> EmptyMap, topology |-> topo, hal |-> EmptyMap])

GainJointMaps ==
    {Map([j1 |-> JointWith(topo)]) : topo \in GainTopologies}
    \cup {Map([j2 |-> JointWith(topo), act1 |-> JointWith(Map([kp |-> Num(1)]))]) :
             topo \in GainTopologies}

\* The joints map is complete (line 79) and the files are yet to be written
GainsStart ==
    /\ phys_data = EmptyMap
    /\ topo_data = EmptyMap
    /\ hal_data = EmptyMap
    /\ all_keys = {}
    /\ joints_map \in GainJointMaps
    /\ control_yaml = Yaml("pending", <<>>, {})

GainsNext ==
    \/ GenerateControlYaml

-----------------------------------------------------------------------------
(* The export commands: commands/bridge.py and commands/synapse.py *)

\* bridges/__init__.py lines 5-8 and synapses/__init__.py lines 5-8
AVAILABLE_BRIDGES == {"ros2", "isaac"}
AVAILABLE_SYNAPSES == {"ros2", "isaac"}

\* str.lower() on the target names of the model
LowerName(name) ==
    CASE name = "ROS2" -> "ros2"
      [] name = "Gazebo" -> "gazebo"
      [] OTHER -> name

\* bridges/__init__.py lines 10-11: no lower() of its own
get_bridge(name) == IF name \in AVAILABLE_BRIDGES THEN name ELSE "none"

\* synapses/__init__.py lines 10-11
get_synapse(name) == IF LowerName(name) \in AVAILABLE_SYNAPSES THEN LowerName(name) ELSE "none"

Targets == {"ros2", "ROS2", "isaac", "gazebo", "Gazebo"}

\* out: whether the destination folder exists when the command starts.
\* find_default_kernel and load_jsonc: the kernel is found and parses, is not
\* found, or is found and is not valid JSONC
Kernels == {"found", "none", "invalid"}

\* spec/openrgd_unified_spec.json as ROS2Bridge.generate finds it: "raising" is
\* a document whose topology makes _expand_profiles raise
Twins == {"absent", "unreadable", "no_dynamics", "raising", "ok"}
MissingTwins == {"absent", "unreadable", "no_dynamics"}

\* The ROS2 bridge is the one bridge run here
ExportInputs ==
    {inp \in [command : {"bridge", "synapse"}, target : Targets,
              kernel : Kernels, twin : Twins, out : BOOLEAN] :
        inp.command = "bridge" => LowerName(inp.target) # "isaac"}

Ros2Artifacts == {"ros2_control.yaml", "rgd_limits.xacro", "rgd_hardware.xacro"}

\* generator.py lines 18, 25, 40
TwinMessage(twin) ==
    CASE twin = "absent" -> "Machine Twin not found"
      [] twin = "unreadable" -> "Error reading Machine Twin"
      [] twin = "no_dynamics" -> "'actuation_dynamics' module missing"

CommandIdle ==
    /\ export_input = [command |-> "none", target |-> "", kernel |-> "none",
                       twin |-> "absent", out |-> FALSE]
    /\ export_pc = "idle"
    /\ output_dir = FALSE
    /\ adapter = "none"
    /\ artifacts = {}
    /\ logged = {}
    /\ export_exit = -1

CommandStart ==
    /\ export_input \in ExportInputs
    /\ export_pc = "start"
    /\ output_dir = export_input.out
    /\ adapter = "none"
    /\ artifacts = {}
    /\ logged = {}
    /\ export_exit = -1

Exit(code, messages) ==
    /\ export_pc' = "done"
    /\ export_exit' = code
    /\ logged' = logged \cup messages

\* bridge.py lines 19-23
BridgeUnknownTarget ==
    /\ export_pc = "start"
    /\ export_input.command = "bridge"
    /\ get_bridge(LowerName(export_input.target)) = "none"
    /\ Exit(1, {"Unknown bridge target", "Available bridges: ros2, isaac"})
    /\ UNCHANGED <<export_input, output_dir, adapter, artifacts, otherThanCommand>>

\* bridge.py lines 26-29
BridgeNoKernel ==
    /\ export_pc = "start"
    /\ export_input.command = "bridge"
    /\ get_bridge(LowerName(export_input.target)) # "none"
    /\ export_input.kernel = "none"
    /\ Exit(1, {"No Kernel found. Cannot build bridge."})
    /\ UNCHANGED <<export_input, output_dir, adapter, artifacts, otherThanCommand>>

\* bridge.py lines 31-34: load_jsonc raises typer.Exit(1) (utils.py lines 75-78)
BridgeKernelInvalid ==
    /\ export_pc = "start"
    /\ export_input.command = "bridge"
    /\ get_bridge(LowerName(export_input.target)) # "none"
    /\ export_input.kernel = "invalid"
    /\ Exit(1, {"Initializing Bridge", "Syntax Error in"})
    /\ UNCHANGED <<export_input, output_dir, adapter, artifacts, otherThanCommand>>

\* bridge.py lines 31-38
BridgePrepare ==
    /\ export_pc = "start"
    /\ export_input.command = "bridge"
    /\ get_bridge(LowerName(export_input.target)) # "none"
    /\ export_input.kernel = "found"
    /\ logged' = logged \cup {"Initializing Bridge"}
    /\ output_dir' = TRUE
    /\ export_pc' = "execute"
    /\ UNCHANGED <<export_input, adapter, artifacts, export_exit, otherThanCommand>>

\* bridge.py lines 41-47 with generate returning early (generator.py lines
\* 17-19, 24-26, 39-41)
BridgeGenerateNothing ==
    /\ export_pc = "execute"
    /\ export_input.twin \in MissingTwins
    /\ adapter' = "ROS2Bridge"
    /\ Exit(0, {"Transpiling identity", TwinMessage(export_input.twin),
                "Bridge construction complete"})
    /\ UNCHANGED <<export_input, output_dir, artifacts, otherThanCommand>>

\* bridge.py lines 41-47 with generate running to its end (generator.py lines 82-84)
BridgeGenerate ==
    /\ export_pc = "execute"
    /\ export_input.twin = "ok"
    /\ adapter' = "ROS2Bridge"
    /\ artifacts' = Ros2Artifacts
    /\ Exit(0, {"Transpiling identity", "Generated Config: ros2_control.yaml",
                "Bridge construction complete"})
    /\ UNCHANGED <<export_input, output_dir, otherThanCommand>>

\* bridge.py lines 49-51: _expand_profiles raises at generator.py line 45,
\* before any file is written
BridgeCollapse ==
    /\ export_pc = "execute"
    /\ export_input.twin = "raising"
    /\ adapter' = "ROS2Bridge"
    /\ Exit(1, {"Transpiling identity", "Bridge collapse"})
    /\ UNCHANGED <<export_input, output_dir, artifacts, otherThanCommand>>

\* synapse.py lines 17-18: get_synapse returns None and the call of None
\* raises TypeError, which nothing catches
SynapseUnknownTarget ==
    /\ export_pc = "start"
    /\ export_input.command = "synapse"
    /\ get_synapse(LowerName(export_input.target)) = "none"
    /\ Exit(1, {"Traceback: TypeError"})
    /\ UNCHANGED <<export_input, output_dir, adapter, artifacts, otherThanCommand>>

\* synapse.py line 18: BaseSynapse.__init__(self, kernel_data, spec_dir)
\* (synapses/base.py line 12) takes no output_dir, the call raises TypeError
SynapseInstantiate ==
    /\ export_pc = "start"
    /\ export_input.command = "synapse"
    /\ get_synapse(LowerName(export_input.target)) # "none"
    /\ Exit(1, {"Traceback: TypeError"})
    /\ UNCHANGED <<export_input, output_dir, adapter, artifacts, otherThanCommand>>

CommandNext ==
    \/ BridgeUnknownTarget
    \/ BridgeNoKernel
    \/ BridgeKernelInvalid
    \/ BridgePrepare
    \/ BridgeGenerateNothing
    \/ BridgeGenerate
    \/ BridgeCollapse
    \/ SynapseUnknownTarget
    \/ SynapseInstantiate

-----------------------------------------------------------------------------
(* _expand_profiles and _recursive_update on objects with an identity. A    *)
(* dict or a list is an object of the heap; a value held by a dict is a     *)
(* number, a string, null or the reference to an object, and so is an       *)
(* element of a list. An assignment d[k] = v stores the reference,          *)
(* copy.deepcopy and {} make new objects. An address is a sequence of       *)
(* names: a new object gets an address that no object has.                  *)

Addr(a) == [t |-> "ref", v |-> a]
IsRef(c) == c.t = "ref"
IsDict(h, c) == IsRef(c) /\ h[c.v].t = "map"
IsObject(val) == val.t \in {"map", "arr"}

\* The outcome of a call: the heap it leaves and the value it returns
Outcome(h, r) == [h |-> h, r |-> r]

\* The name of the n-th element of a list
IndexName(n) == <<"0", "1", "2">>[n]
IndexOf(name) == CHOOSE n \in 1..3 : IndexName(n) = name

Names(val) == IF val.t = "map" THEN Keys(val) ELSE {IndexName(n) : n \in 1..Len(val.v)}
Item(val, name) == IF val.t = "map" THEN val.v[name] ELSE val.v[IndexOf(name)]

\* The places of the dicts and lists inside a value
RECURSIVE ObjectPaths(_)
ObjectPaths(val) ==
    IF ~IsObject(val) THEN {}
    ELSE {<<>>} \cup UNION {{<<name>> \o q : q \in ObjectPaths(Item(val, name))} :
                              name \in Names(val)}

RECURSIVE ValueAt(_, _)
ValueAt(val, path) ==
    IF path = <<>> THEN val ELSE ValueAt(Item(val, Head(path)), Tail(path))

\* The object for the dict or list at a place of val, its own objects being
\* stored at addresses that start with base
ObjectAt(val, path, base) ==
    LET x == ValueAt(val, path)
        cell(name) == IF IsObject(Item(x, name))
                      THEN Addr(base \o path \o <<name>>)
                      ELSE Item(x, name)
    IN  IF x.t = "map" THEN Map([k \in Keys(x) |-> cell(k)])
        ELSE Arr([n \in 1..Len(x.v) |-> cell(IndexName(n))])

\* json.load, and the making of a copy: every dict and list of val becomes a
\* new object
Store(h, val, base) ==
    IF ~IsObject(val) THEN Outcome(h, val)
    ELSE LET new == {base \o q : q \in ObjectPaths(val)}
         IN  Outcome([a \in DOMAIN h \cup new |->
                          IF a \in new
                          THEN ObjectAt(val, SubSeq(a, Len(base) + 1, Len(a)), base)
                          ELSE h[a]],
                     Addr(base))

\* The value an object of the heap holds
RECURSIVE Load(_, _)
Load(h, c) ==
    IF ~IsRef(c) THEN c
    ELSE IF h[c.v].t = "map"
    THEN Map([k \in DOMAIN h[c.v].v |-> Load(h, h[c.v].v[k])])
    ELSE Arr([n \in 1..Len(h[c.v].v) |-> Load(h, h[c.v].v[n])])

\* A variant of the copy that hands out the object itself
deepcopyOfReference(h, c, base) == Outcome(h, c)

\* copy.deepcopy (line 117): new objects holding the same value
deepcopy(h, c, base) == Store(h, Load(h, c), base)

\* {} (lines 111 and 136): a new empty dict
NewDict(h, base) == Outcome([a \in DOMAIN h \cup {base} |-> IF a = base THEN EmptyMap ELSE h[a]],
                            Addr(base))

\* d[k] = c
SetItem(h, d, k, c) ==
    [h EXCEPT ![d.v] = Map([x \in DOMAIN h[d.v].v \cup {k} |->
                                IF x = k THEN c ELSE h[d.v].v[x]])]

\* lines 104-105: dict.get on topology_content
HeapItem(h, d, k) == IF k \in DOMAIN h[d.v].v THEN h[d.v].v[k] ELSE Null
HeapProfiles == HeapItem(heap, heap_root, "control_profiles_map")
HeapInstances == HeapItem(heap, heap_root, "joint_actuator_mapping_map")

\* lines 111-117: final_data of the instance under key
HeapBase(instance_data, key) ==
    LET profile_id == HeapItem(heap, instance_data, "use_profile_ref_str")
    IN  IF /\ Truthy(profile_id)
           /\ profile_id.t = "str"
           /\ IsDict(heap, HeapProfiles)
           /\ profile_id.v \in DOMAIN heap[HeapProfiles.v].v
        THEN deepcopy(heap, heap[HeapProfiles.v].v[profile_id.v], <<"final_data", key>>)
        ELSE NewDict(heap, <<"final_data", key>>)

\* A call _recursive_update(d, u): ks are the keys of u the loop of line 134
\* has yet to visit, k the key of the caller's d that takes the value returned
Call(d, u, ks, k) == [d |-> d, u |-> u, ks |-> ks, k |-> k]
CallOf(h, d, u, k) == Call(d, u, DOMAIN h[u.v].v, k)

InnerCall == update_calls[Len(update_calls)]
NextKey == CHOOSE k \in InnerCall.ks : TRUE
NextValue == heap[InnerCall.u.v].v[NextKey]
Callers == SubSeq(update_calls, 1, Len(update_calls) - 1)

\* Instances and a profile that hold a mapping inside a list
ListInstances ==
    {Map([use_profile_ref_str |-> Str("P"), nested |-> Arr(<<Map([c |-> Num(9)])>>)]),
     Map([use_profile_ref_str |-> Str("P"), kp |-> Arr(<<Map([c |-> Num(9)])>>),
          overrides |-> Map([kp |-> EmptyMap])]),
     Map([use_profile_ref_str |-> Str("P"), other |-> Arr(<<Map([c |-> Num(9)])>>)])}
ListProfile == Map([kp |-> Arr(<<Map([a |-> Num(1)])>>), nested |-> Map([a |-> Num(1)])])

\* The topologies of two instances and one profile
HeapTopologies ==
    {topo \in Topologies :
        /\ "control_profiles_map" \in Keys(topo)
        /\ Keys(topo.v["joint_actuator_mapping_map"]) = {"j1", "j2"}}
    \cup {Map([control_profiles_map |-> Map([P |-> ListProfile]),
               joint_actuator_mapping_map |-> Map([j1 |-> inst, j2 |-> other])]) :
            inst \in ListInstances, other \in SecondInstances \cup ListInstances}

HeapIdle ==
    /\ heap = <<>>
    /\ heap_given = NoTopology
    /\ heap_root = Null
    /\ heap_todo = <<>>
    /\ heap_expanded = <<>>
    /\ heap_final = Null
    /\ update_calls = <<>>
    /\ heap_phase = "next"
    /\ heap_raised = FALSE
    /\ heap_returned = Null

HeapStart ==
    /\ heap_given \in HeapTopologies
    /\ heap = Store(<<>>, heap_given, <<"topology_content">>).h
    /\ heap_root = Addr(<<"topology_content">>)
    /\ heap_todo \in KeyOrders(Keys(heap_given.v["joint_actuator_mapping_map"]))
    /\ heap_expanded = <<>>
    /\ heap_final = Null
    /\ update_calls = <<>>
    /\ heap_phase = "next"
    /\ heap_raised = FALSE
    /\ heap_returned = Null

HeapRunning == heap_returned = Null /\ ~heap_raised

\* lines 109-121: final_data is made and _recursive_update(final_data,
\* instance_data) is called
BeginInstance ==
    /\ HeapRunning
    /\ heap_phase = "next"
    /\ heap_todo # <<>>
    /\ LET instance_data == heap[HeapInstances.v].v[Head(heap_todo)]
           base == HeapBase(instance_data, Head(heap_todo))
       IN  /\ heap' = base.h
           /\ heap_final' = base.r
           /\ update_calls' = <<CallOf(heap, base.r, instance_data, "")>>
    /\ heap_phase' = "instance"
    /\ UNCHANGED <<heap_given, heap_root, heap_todo, heap_expanded, heap_raised,
                   heap_returned, otherThanHeap>>

\* lines 134-138: v is not a dict, d[k] = v
UpdateAssign ==
    /\ HeapRunning
    /\ update_calls # <<>>
    /\ InnerCall.ks # {}
    /\ IsDict(heap, InnerCall.d)
    /\ ~IsDict(heap, NextValue)
    /\ heap' = SetItem(heap, InnerCall.d, NextKey, NextValue)
    /\ update_calls' = Append(Callers, [InnerCall EXCEPT !.ks = @ \ {NextKey}])
    /\ UNCHANGED <<heap_given, heap_root, heap_todo, heap_expanded, heap_final, heap_phase,
                   heap_raised, heap_returned, otherThanHeap>>

\* lines 134-136: v is a dict, _recursive_update(d.get(k, {}), v) is called
UpdateDescend ==
    /\ HeapRunning
    /\ update_calls # <<>>
    /\ InnerCall.ks # {}
    /\ IsDict(heap, InnerCall.d)
    /\ IsDict(heap, NextValue)
    /\ LET has == NextKey \in DOMAIN heap[InnerCall.d.v].v
           got == IF has THEN Outcome(heap, heap[InnerCall.d.v].v[NextKey])
                  ELSE NewDict(heap, InnerCall.d.v \o <<NextKey>>)
       IN  /\ heap' = got.h
           /\ update_calls' = Append(update_calls, CallOf(heap, got.r, NextValue, NextKey))
    /\ UNCHANGED <<heap_given, heap_root, heap_todo, heap_expanded, heap_final, heap_phase,
                   heap_raised, heap_returned, otherThanHeap>>

\* line 139 and the assignment of line 136: the inner call returns its d,
\* which the caller stores under k
UpdateReturn ==
    /\ HeapRunning
    /\ Len(update_calls) >= 2
    /\ InnerCall.ks = {}
    /\ LET caller == update_calls[Len(update_calls) - 1]
       IN  /\ heap' = SetItem(heap, caller.d, InnerCall.k, InnerCall.d)
           /\ update_calls' = Append(SubSeq(update_calls, 1, Len(update_calls) - 2),
                                     [caller EXCEPT !.ks = @ \ {InnerCall.k}])
    /\ UNCHANGED <<heap_given, heap_root, heap_todo, heap_expanded, heap_final, heap_phase,
                   heap_raised, heap_returned, otherThanHeap>>

\* lines 136 and 138: d is not a dict, d.get or d[k] = v raises
UpdateRaises ==
    /\ HeapRunning
    /\ update_calls # <<>>
    /\ InnerCall.ks # {}
    /\ ~IsDict(heap, InnerCall.d)
    /\ heap_raised' = TRUE
    /\ UNCHANGED <<heap, heap_given, heap_root, heap_todo, heap_expanded, heap_final,
                   update_calls, heap_phase, heap_returned, otherThanHeap>>

HasOverrides == "overrides" \in DOMAIN heap[heap[HeapInstances.v].v[Head(heap_todo)].v].v
Overrides == heap[heap[HeapInstances.v].v[Head(heap_todo)].v].v["overrides"]

\* lines 124-125: the call for the instance has returned and the instance
\* holds an "overrides" dict
BeginOverrides ==
    /\ HeapRunning
    /\ heap_phase = "instance"
    /\ Len(update_calls) = 1
    /\ InnerCall.ks = {}
    /\ HasOverrides
    /\ IsDict(heap, Overrides)
    /\ update_calls' = <<CallOf(heap, heap_final, Overrides, "")>>
    /\ heap_phase' = "overrides"
    /\ UNCHANGED <<heap, heap_given, heap_root, heap_todo, heap_expanded, heap_final,
                   heap_raised, heap_returned, otherThanHeap>>

\* line 127: expanded_instances[key] = final_data
StoreInstance ==
    /\ HeapRunning
    /\ Len(update_calls) = 1
    /\ InnerCall.ks = {}
    /\ heap_phase = "overrides" \/ (heap_phase = "instance" /\ ~HasOverrides)
    /\ heap_expanded' = [k \in DOMAIN heap_expanded \cup {Head(heap_todo)} |->
                            IF k = Head(heap_todo) THEN heap_final ELSE heap_expanded[k]]
    /\ heap_todo' = Tail(heap_todo)
    /\ heap_final' = Null
    /\ update_calls' = <<>>
    /\ heap_phase' = "next"
    /\ UNCHANGED <<heap, heap_given, heap_root, heap_raised, heap_returned, otherThanHeap>>

\* line 130: the dict returned holds expanded_instances
HeapReturn ==
    /\ HeapRunning
    /\ heap_phase = "next"
    /\ heap_todo = <<>>
    /\ heap' = [a \in DOMAIN heap \cup {<<"expanded_instances">>, <<"returned">>} |->
                   IF a = <<"expanded_instances">> THEN Map(heap_expanded)
                   ELSE IF a = <<"returned">>
                   THEN Map([joint_actuator_mapping_map |-> Addr(<<"expanded_instances">>)])
                   ELSE heap[a]]
    /\ heap_returned' = Addr(<<"returned">>)
    /\ UNCHANGED <<heap_given, heap_root, heap_todo, heap_expanded, heap_final, update_calls,
                   heap_phase, heap_raised, otherThanHeap>>

HeapNext ==
    \/ BeginInstance
    \/ UpdateAssign
    \/ UpdateDescend
    \/ UpdateReturn
    \/ UpdateRaises
    \/ BeginOverrides
    \/ StoreInstance
    \/ HeapReturn

-----------------------------------------------------------------------------
(* Specifications *)

OthersIdle == CompareIdle /\ ExportIdle /\ CommandIdle /\ HeapIdle

StripInit == StripStart /\ MergeIdle /\ ScanIdle /\ IntegrityIdle /\ OthersIdle
MergeInit == MergeStart /\ StripIdle /\ ScanIdle /\ IntegrityIdle /\ OthersIdle
ScanInit == ScanStart /\ StripIdle /\ MergeIdle /\ IntegrityIdle /\ OthersIdle
IntegrityInit == IntegrityStart /\ StripIdle /\ MergeIdle /\ OthersIdle
CompareInit ==
    /\ CompareStart /\ StripIdle /\ MergeIdle /\ ScanIdle /\ IntegrityIdle
    /\ ExportIdle /\ CommandIdle /\ HeapIdle
ExportInit ==
    /\ ExportStart /\ StripIdle /\ MergeIdle /\ ScanIdle /\ IntegrityIdle
    /\ CompareIdle /\ CommandIdle /\ HeapIdle
GainsInit ==
    /\ GainsStart /\ StripIdle /\ MergeIdle /\ ScanIdle /\ IntegrityIdle
    /\ CompareIdle /\ CommandIdle /\ HeapIdle
CommandInit ==
    /\ CommandStart /\ StripIdle /\ MergeIdle /\ ScanIdle /\ IntegrityIdle
    /\ CompareIdle /\ ExportIdle /\ HeapIdle
HeapInit ==
    /\ HeapStart /\ StripIdle /\ MergeIdle /\ ScanIdle /\ IntegrityIdle
    /\ CompareIdle /\ ExportIdle /\ CommandIdle

SpecStrip == StripInit /\ [][StripNext]_vars
\* The loop of strip_jsonc runs on while it can (line 44)
SpecStripFair == StripInit /\ [][StripNext]_vars /\ WF_vars(StripNext)
SpecMerge == MergeInit /\ [][MergeNext]_vars
SpecScan == ScanInit /\ [][ScanNext]_vars
SpecIntegrity == IntegrityInit /\ [][IntegrityNext]_vars
SpecCompare == CompareInit /\ [][CompareNext]_vars
SpecExport == ExportInit /\ [][ExportNext]_vars
SpecGains == GainsInit /\ [][GainsNext]_vars
SpecCommand == CommandInit /\ [][CommandNext]_vars
SpecHeap == HeapInit /\ [][HeapNext]_vars

-----------------------------------------------------------------------------
(* Claims about strip_jsonc *)

\* C1 (as claimed): for every valid JSONC text, once the scan has ended, the
\* output parsed as strict JSON gives the tokens of the text's comment-free
\* equivalent: no token is changed, dropped or truncated.
C1_StripIsContentNeutral ==
    (StripDone /\ ValidJsonc(text)) => JsonTokens(output) = JsoncTokens(text)

\* C2 (as claimed): in a valid JSONC text the scanner never takes a // or /*
\* that lies inside a properly quoted and escaped string literal as the start
\* of a comment.
C2_NoCommentStartInsideString ==
    [][(/\ ValidJsonc(text)
        /\ \/ ~in_comment_line /\ in_comment_line'
           \/ ~in_comment_block /\ in_comment_block')
       => ~InsideStringLiteral(text, i)]_vars

\* The flags that are set
FlagsSet ==
    {f \in {"in_string", "in_comment_line", "in_comment_block"} :
        \/ f = "in_string" /\ in_string
        \/ f = "in_comment_line" /\ in_comment_line
        \/ f = "in_comment_block" /\ in_comment_block}

\* C29: at every step of the scan at most one of the flags in_string,
\* in_comment_line and in_comment_block is set, the position never passes the
\* end of the text, and the scan comes to its end with every character of
\* the text consumed.
C29_OneStateAndTerminates ==
    /\ [](Cardinality(FlagsSet) <= 1 /\ i <= length)
    /\ <>[](i = length)

\* A scan has ended on a text that held a string literal and a comment
C29_Witness ==
    /\ StripDone
    /\ \E k \in 1..length : text[k] = Q
    /\ Len(output) < length

-----------------------------------------------------------------------------
(* Claims about topology resolution *)

\* The instances resolved so far, with their input and their result
ResolvedKeys == Keys(expanded_instances)
Inst(k) == instances.v[k]
Res(k) == expanded_instances.v[k]
OverrideKeys(inst) ==
    IF "overrides" \in Keys(inst) /\ IsMap(inst.v["overrides"])
    THEN Keys(inst.v["overrides"]) ELSE {}

ExampleProfile == Map([kp |-> Num(1), nested |-> Map([a |-> Num(1), b |-> Num(2)])])
ExampleInstance == Map([use_profile_ref_str |-> Str("P"), nested |-> Map([b |-> Num(9)])])

IsExample(k) ==
    /\ Inst(k) = ExampleInstance
    /\ "P" \in Keys(profiles)
    /\ profiles.v["P"] = ExampleProfile

C4_OverlayReplacesWithoutError ==
    /\ ~raised
    /\ \A k \in ResolvedKeys :
           LET inst == Inst(k)
               base == BaseData(inst)
           IN  "overrides" \notin Keys(inst) =>
                   \A f \in Keys(inst) :
                       ~(f \in Keys(base) /\ IsMap(base.v[f]) /\ IsMap(inst.v[f])) =>
                           Res(k).v[f] = inst.v[f]

C6_MergeIsIdempotent ==
    \A k \in ResolvedKeys : RecursiveUpdate(Res(k), Res(k)) = Res(k)

\* C6 witness: a resolved configuration with an array and a nested mapping,
\* both inherited from the profile and overlaid by the instance.
C6_Witness ==
    \E k \in ResolvedKeys :
        /\ UsesKnownProfile(Inst(k))
        /\ {"kp", "nested"} \subseteq Keys(Res(k))
        /\ Res(k).v["kp"].t = "arr"
        /\ IsMap(Res(k).v["nested"])
        /\ "nested" \in Keys(Inst(k))

-----------------------------------------------------------------------------
(* The spec scanner *)

Rec(k) == records[k]

\* The original source files, scanned
OriginalRecords == scan_spec_records(SetToSeq(RGlob(source_files, spec_dir, dot_jsonc)))

\* C7: two scans of the same unchanged tree return the same record sequence,
\* whatever the order in which the files are enumerated, also when two files
\* share the sort key (weight, id).
C7_RescanIsIdentical == scans = 2 => records = prev_records

\* The tree was scanned twice and two of its records share (weight, id)
C7_Witness ==
    /\ scans = 2
    /\ \E j, k \in 1..Len(records) :
           /\ j < k
           /\ Rec(j).weight = Rec(k).weight
           /\ Rec(j).id = Rec(k).id
           /\ Rec(j).path # Rec(k).path

\* C8: the records of a scan are in ascending order of (weight, id), so that
\* the records of domain "unknown" (weight 999) follow those of every
\* recognized domain.
C8_RecordsSortedByWeightThenId ==
    /\ \A k \in 1..(Len(records) - 1) :
           \/ Rec(k).weight < Rec(k + 1).weight
           \/ Rec(k).weight = Rec(k + 1).weight /\ ~StrLess(Rec(k + 1).id, Rec(k).id)
    /\ \A j, k \in 1..Len(records) :
           Rec(j).domain = unknown /\ Rec(k).domain # unknown
               => Rec(j).weight = 999 /\ k < j

\* A scan has returned records of one weight with different ids, or an
\* unknown record next to a recognized one
C8_Witness ==
    /\ scans >= 1
    /\ \E j, k \in 1..Len(records) :
           \/ Rec(j).weight = Rec(k).weight /\ Rec(j).id # Rec(k).id
           \/ Rec(j).domain = unknown /\ Rec(k).domain # unknown

\* The first part of the path, from the root, that starts with a recognized
\* prefix; 0 when there is none
FirstMatchingPart(parts) ==
    IF \A k \in 1..Len(parts) : Matching(parts[k]) = {} THEN 0
    ELSE CHOOSE k \in 1..Len(parts) :
             /\ Matching(parts[k]) # {}
             /\ \A j \in 1..(k - 1) : Matching(parts[j]) = {}

\* C9: the domain and weight of a record are those of the first part of its
\* path that starts with a recognized prefix, whatever the later parts are,
\* and ("unknown", 999) when no part does.
C9_FirstMatchingPartWins ==
    \A k \in 1..Len(records) :
        LET parts == Rec(k).path
            first == FirstMatchingPart(parts)
        IN  IF first = 0
            THEN Rec(k).domain = unknown /\ Rec(k).weight = 999
            ELSE /\ Rec(k).domain = parts[first]
                 /\ Rec(k).weight = DOMAIN_WEIGHTS[FirstMatching(parts[first])].w

\* C10: after any builds, a scan of the tree returns the records of the
\* original source files and no generated document.
C10_RescanReturnsOriginalRecords == scans >= 1 => records = OriginalRecords

\* The files the scan discovers
Discovered == RGlob(files, spec_dir, dot_jsonc)

RecordsAt(path) == {k \in 1..Len(records) : Rec(k).path = path}

\* C11: a discovered file that does not parse yields no record and does not
\* end the scan: every other discovered file that is not a generated unified
\* document and parses yields exactly one record.
C11_UnparsableFileIsSkipped ==
    scans >= 1 =>
        \A f \in Discovered :
            IF Parses(f.content) /\ ~Contains(Name(f), unified_spec)
            THEN Cardinality(RecordsAt(f.path)) = 1
            ELSE RecordsAt(f.path) = {}

\* A scan of a tree with a file that does not parse has returned a record
C11_Witness ==
    /\ scans >= 1
    /\ \E f \in Discovered : ~Parses(f.content)
    /\ records # <<>>

\* C12: a source file that does not parse never ends a build: in default,
\* single-domain and full mode the command completes; the only failing exit
\* is that of an unknown domain selector.
C12_MalformedFileNeverAbortsBuild == exit_code # 0 => command.mode = "domain"

\* The domains of the domain map built from the last scan
ScannedDomains == DomainOrder(records, <<>>)

\* C13: every alias of every domain of the domain map resolves to that
\* domain, whether or not two domains share a numeric code or a label.
C13_EveryAliasResolvesToItsDomain ==
    scans >= 1 =>
        \A k \in 1..Len(ScannedDomains) :
            \A alias \in AliasesOf(ScannedDomains[k]) :
                AliasLookup(records, alias) = ScannedDomains[k]

\* The records compile_spec scans when it starts in the current tree
RecordsNow == scan_spec_records(SetToSeq(Discovered))

\* C14: a run of compile-spec whose domain selector matches no alias exits
\* with a non-zero code and leaves the file tree as it was.
C14_UnknownSelectorWritesNothing ==
    [][(/\ builds' = builds + 1
        /\ command'.domain # NoSelector
        /\ AliasLookup(RecordsNow, Lower(command'.domain)) = NoDomain)
       => (exit_code' # 0 /\ files' = files)]_vars

\* C15: after the bundles of all domains are generated (full mode), every
\* domain of the domain map has a human and a machine bundle of its own,
\* whose entries are the records of the domain in id order.
C15_EveryDomainHasItsBundlePair ==
    [][(builds' = builds + 1 /\ command'.mode = "full" /\ exit_code' = 0)
       => \A k \in 1..Len(DomainOrder(RecordsNow, <<>>)) :
              LET dom == DomainOrder(RecordsNow, <<>>)[k]
                  members == SortById(DomainRecords(RecordsNow, dom))
              IN  /\ \E f \in files' :
                         /\ f.content.kind = "DOMAIN_HUMAN_TWIN_WITH_COMMENTS"
                         /\ f.content.domain = dom
                         /\ f.content.entries = HumanEntries(members)
                  /\ \E f \in files' :
                         /\ f.content.kind = "DOMAIN_MACHINE_TWIN"
                         /\ f.content.domain = dom
                         /\ f.content.entries = MachineEntries(members)]_vars

\* Whether two documents agree in every field other than generated_at
SameButGeneratedAt(a, b) ==
    /\ a.kind = b.kind
    /\ a.tag = b.tag
    /\ a.domain = b.domain
    /\ a.entries = b.entries

\* C16: two machine documents compare as MATCH when they differ in
\* generated_at only, and as MISMATCH when they differ in any other field:
\* the type of the document, a file's path, id, domain or content, or the
\* number or order of the files.
C16_MachineMatchIffOnlyTimeDiffers ==
    compared # "none" => (compared = "OK" <=> SameButGeneratedAt(left_doc, right_doc))

\* The human document the last integrity check regenerated, and its benchmark
CheckedHuman == ContentAt(files, spec_dir \o <<report.output_base \o dot_jsonc>>)
BenchHuman == ContentAt(files, benchmark_dir \o <<report.output_base \o dot_jsonc>>)

\* A human document without the line of its generation time, the fourth line
\* the builder writes
WithoutBuilderTime(lines) == SubSeq(lines, 1, 3) \o SubSeq(lines, 5, Len(lines))

\* C17: the human comparison reports MATCH if and only if the regenerated
\* document and the benchmark are the same text, character by character,
\* outside the line of the generation time that the builder writes.
C17_HumanMatchIffSameText ==
    report.human # "none" =>
        (report.human = "OK" <=>
            WithoutBuilderTime(HumanLines(CheckedHuman))
                = WithoutBuilderTime(HumanLines(BenchHuman)))

\* The machine benchmark of the last integrity check
BenchMachine == ContentAt(files, benchmark_dir \o <<report.output_base \o dot_json>>)

\* The path of the mirror of a source file (ensure_standard_from_spec)
MirrorPath(f) ==
    standard_dir \o SubSeq(f.path, Len(spec_dir) + 1, Len(f.path) - 1)
                 \o <<WithSuffix(Name(f), dot_json)>>

\* A source file whose parsed content is not the one the benchmark stores
ChangedSinceBenchmark(f) ==
    /\ f.content.kind = "source"
    /\ Parses(f.content)
    /\ \E k \in 1..Len(BenchMachine.entries) :
           /\ BenchMachine.entries[k].path = MirrorPath(f)
           /\ BenchMachine.entries[k].content # Parsed(f.content)

\* C18: when the parsed content of a source file under /spec is not the one
\* the benchmark was stored with, the machine comparison of the integrity
\* check reports MISMATCH.
C18_ChangedSourceGivesMachineMismatch ==
    (report.machine # "none" /\ \E f \in Discovered : ChangedSinceBenchmark(f))
        => report.machine = "MISMATCH"

\* C19: an integrity check that reports the human comparison reports the
\* machine comparison too, whatever the human verdict is, and its exit code
\* is 0 if and only if both verdicts are OK.
C19_BothReportedAndExitZeroIffBothMatch ==
    report # NoReport =>
        /\ report.human \in {"OK", "MISMATCH"} <=> report.machine \in {"OK", "MISMATCH"}
        /\ report.exit_code = 0 <=> (report.human = "OK" /\ report.machine = "OK")

\* A check has reported a human mismatch and a machine match, and failed
C19_Witness ==
    /\ report.human = "MISMATCH"
    /\ report.machine = "OK"
    /\ report.exit_code = 1

\* The raw keys of the three source maps, and the state after the loop
RawKeys == Keys(phys_data) \cup Keys(topo_data) \cup Keys(hal_data)
ExportDone == all_keys = {} /\ RawKeys # {}

\* The field of the entry a source map holds under a key, Null without one
Ref(m, key, field) ==
    LET e == Get(m, key, EmptyMap)
    IN  IF IsMap(e) THEN Get(e, field, Null) ELSE Null

\* The logical name of a raw key by the order of preference, a reference
\* counting when it is given
LogicalName(key, Given(_)) ==
    LET t == Ref(topo_data, key, "target_joint_ref_str")
        p == Ref(phys_data, key, "target_joint_ref_str")
        h == Ref(hal_data, key, "logical_actuator_ref_str")
    IN  IF Given(t) THEN t.v
        ELSE IF Given(p) THEN p.v
        ELSE IF Given(h) THEN h.v
        ELSE key

Declared(x) == x # Null
NonEmpty(x) == x # Null /\ x # Str("")

\* Every key of keys has a joint under its logical name, holding the record
\* of a key of that name, and there is no joint of another name
JointsNamedBy(keys, Given(_)) ==
    /\ \A k \in keys :
           /\ LogicalName(k, Given) \in Keys(joints_map)
           /\ \E k2 \in keys :
                  /\ LogicalName(k2, Given) = LogicalName(k, Given)
                  /\ joints_map.v[LogicalName(k, Given)] = JointRecord(k2)
    /\ Keys(joints_map) \subseteq {LogicalName(k, Given) : k \in keys}

\* C20 as stated: every raw key of the three source maps has its joint
\* stored under the name chosen by the order of preference, topology's
\* declared target, else physics's, else hal's logical reference, else the
\* key itself.
C20_EveryRawKeyStoredUnderLogicalName ==
    ExportDone => JointsNamedBy(RawKeys, Declared)

\* C20, amended: every raw key other than the reserved keys meta_group and
\* __doc__ has its joint stored under the name chosen by the order of
\* preference among the references that are given and not empty; a reserved
\* key has no joint.
C20_NonReservedKeyStoredUnderLogicalName ==
    ExportDone => JointsNamedBy(RawKeys \ ReservedKeys, NonEmpty)

\* The export of physics key j1 without a target and topology key j1 with
\* the target joint_one has stored joint_one and no j1
C20_Witness ==
    /\ ExportDone
    /\ "j1" \in Keys(phys_data)
    /\ Ref(phys_data, "j1", "target_joint_ref_str") = Null
    /\ Ref(topo_data, "j1", "target_joint_ref_str") = Str("joint_one")
    /\ "joint_one" \in Keys(joints_map)
    /\ "j1" \notin Keys(joints_map)

\* The joint record stored under the logical name of a raw key
JointOf(key) == joints_map.v[LogicalName(key, NonEmpty)]

\* C21: the joints map is a join on the logical name: after the loop, every
\* raw key other than the reserved ones has its physics, topology and hal
\* entry in the joint record of its logical name, also when several raw keys
\* have that name, and the reserved keys have no joint.
C21_JoinKeepsEverySourceEntry ==
    ExportDone =>
        /\ \A k \in RawKeys \ ReservedKeys :
               /\ LogicalName(k, NonEmpty) \in Keys(joints_map)
               /\ k \in Keys(phys_data) => JointOf(k).v.physics = phys_data.v[k]
               /\ k \in Keys(topo_data) => JointOf(k).v.topology = topo_data.v[k]
               /\ k \in Keys(hal_data) => JointOf(k).v.hal = hal_data.v[k]
        /\ \A k \in ReservedKeys : k \notin Keys(joints_map)

\* Whether res holds, at every key path at which inst holds a value that is
\* not a mapping, exactly that value
RECURSIVE HoldsLeavesOf(_, _)
HoldsLeavesOf(inst, res) ==
    \A k \in Keys(inst) :
        /\ IsMap(res)
        /\ k \in Keys(res)
        /\ IF IsMap(inst.v[k])
           THEN HoldsLeavesOf(inst.v[k], res.v[k])
           ELSE res.v[k] = inst.v[k]

\* C28: the instance wins over the profile at every depth: no resolution
\* raises, and every resolved configuration holds every value of its
\* instance that is not a mapping, at the key path the instance holds it.
C28_InstanceWinsAtEveryDepth ==
    /\ ~raised
    /\ \A k \in ResolvedKeys : HoldsLeavesOf(Inst(k), Res(k))

\* C26: on a tree of well-formed source files that no one edits, an integrity
\* check that follows a full build of the same output name reports OK for
\* both documents and exits with 0, however often the commands are repeated.
C26_BuildThenCheckPasses ==
    (/\ edits = 0
     /\ builds >= 1
     /\ command.mode = "full"
     /\ exit_code = 0
     /\ report # NoReport
     /\ report.output_base = command.output_base)
        => (report.human = "OK" /\ report.machine = "OK" /\ report.exit_code = 0)

\* The ids and domains of the entries of a document, in their order
Corpus(doc) ==
    [k \in 1..Len(doc.entries) |->
        [id |-> doc.entries[k].id, domain |-> doc.entries[k].domain]]

\* The unified documents the last build wrote
BuiltHuman == ContentAt(files, spec_dir \o <<command.output_base \o dot_jsonc>>)
BuiltMachine ==
    ContentAt(files, (IF command.mode = "full" THEN standard_dir ELSE spec_dir)
                         \o <<command.output_base \o dot_json>>)

\* C27: the human and the machine unified document of one build, in default
\* and in full mode, hold entries of the same ids and domains in the same
\* order.
C27_HumanAndMachineHoldSameCorpus ==
    (/\ builds >= 1
     /\ checks = 0
     /\ command.mode \in {"default", "full"}
     /\ exit_code = 0)
        => Corpus(BuiltHuman) = Corpus(BuiltMachine)


(* Claims about the controller configuration *)

YamlWritten == control_yaml.state = "written"

TopologyOf(name) == joints_map.v[name].v.topology

\* The values a topology gives for a field: those on the record itself, and
\* when it has none there those inside its mappings
GivenFor(topo, names) ==
    IF names \cap Keys(topo) # {}
    THEN {topo.v[k] : k \in names \cap Keys(topo)}
    ELSE UNION {{topo.v[s].v[k] : k \in names \cap Keys(topo.v[s])} :
                  s \in {x \in Keys(topo) : IsMap(topo.v[x])}}

ProportionalNames == {"kp_position_float", "kp"}
IntegralNames == {"ki_position_float", "ki"}
DerivativeNames == {"kd_position_float", "kd"}
StiffnessNames == {"stiffness_nm_rad_float", "stiffness"}
DampingNames == {"damping_nms_rad_float", "damping"}

NonZero(values) == {x \in values : x.v # 0} # {}

GainsEntries(name) == {e \in control_yaml.gains : e.name = name}

Occurrences(seq, x) == Cardinality({n \in 1..Len(seq) : seq[n] = x})

\* C22: the controller configuration lists every joint name of the joint map
\* exactly once, and it holds a gains entry for a joint if and only if at
\* least one of the joint's proportional, integral and derivative gains is
\* nonzero.
C22_NamesOnceAndGainsIffNonZero ==
    YamlWritten =>
        /\ \A name \in Keys(joints_map) : Occurrences(control_yaml.joints, name) = 1
        /\ \A n \in 1..Len(control_yaml.joints) : control_yaml.joints[n] \in Keys(joints_map)
        /\ \A name \in Keys(joints_map) :
              GainsEntries(name) # {} <=>
                  \/ NonZero(GivenFor(TopologyOf(name), ProportionalNames))
                  \/ NonZero(GivenFor(TopologyOf(name), IntegralNames))
                  \/ NonZero(GivenFor(TopologyOf(name), DerivativeNames))
                  \/ /\ GivenFor(TopologyOf(name), ProportionalNames \cup DerivativeNames) = {}
                     /\ NonZero(GivenFor(TopologyOf(name), StiffnessNames \cup DampingNames))

NoExplicitGains(topo) == GivenFor(topo, ProportionalNames \cup DerivativeNames) = {}

HasImpedancePair(topo) ==
    /\ GivenFor(topo, StiffnessNames) # {}
    /\ GivenFor(topo, DampingNames) # {}

ExplicitNonZeroGain(topo) == NonZero(GivenFor(topo, ProportionalNames \cup DerivativeNames))

\* The gains entry of the joint takes p from the one set of values and d from
\* the other (a gain that is not given counts as zero)
EntryTakes(name, ps, ds) ==
    \E e \in GainsEntries(name) :
        /\ e.p \in {x.v : x \in ps} \cup (IF ps = {} THEN {0} ELSE {})
        /\ e.d \in {x.v : x \in ds} \cup (IF ds = {} THEN {0} ELSE {})

ExplicitGainsOnly(name) ==
    ExplicitNonZeroGain(TopologyOf(name)) =>
        \A e \in GainsEntries(name) :
            /\ e.p \in {x.v : x \in GivenFor(TopologyOf(name), ProportionalNames)} \cup {0}
            /\ e.d \in {x.v : x \in GivenFor(TopologyOf(name), DerivativeNames)} \cup {0}
            /\ GivenFor(TopologyOf(name), ProportionalNames) # {} => e.p # 0 \/ Num(0) \in GivenFor(TopologyOf(name), ProportionalNames)
            /\ GivenFor(TopologyOf(name), DerivativeNames) # {} => e.d # 0 \/ Num(0) \in GivenFor(TopologyOf(name), DerivativeNames)

\* C23 as stated: a topology with no explicit proportional or derivative gain
\* and a stiffness/damping pair gets the entry p = stiffness, d = damping; with
\* an explicit nonzero kp or kd, stiffness and damping are not used.
C23_AnyImpedancePairGivesGains ==
    YamlWritten =>
        \A name \in Keys(joints_map) :
            /\ (NoExplicitGains(TopologyOf(name)) /\ HasImpedancePair(TopologyOf(name))) =>
                  EntryTakes(name, GivenFor(TopologyOf(name), StiffnessNames),
                                   GivenFor(TopologyOf(name), DampingNames))
            /\ ExplicitGainsOnly(name)

\* C23: a topology with no explicit proportional or derivative gain and a
\* stiffness/damping pair whose stiffness is greater than zero gets the entry
\* p = stiffness, d = damping; with an explicit nonzero kp or kd, stiffness and
\* damping are not used.
C23_PositiveStiffnessGivesGains ==
    YamlWritten =>
        \A name \in Keys(joints_map) :
            /\ (/\ NoExplicitGains(TopologyOf(name))
                /\ HasImpedancePair(TopologyOf(name))
                /\ \A x \in GivenFor(TopologyOf(name), StiffnessNames) : x.v > 0) =>
                  EntryTakes(name, GivenFor(TopologyOf(name), StiffnessNames),
                                   GivenFor(TopologyOf(name), DampingNames))
            /\ ExplicitGainsOnly(name)

C23_Witness ==
    /\ YamlWritten
    /\ joints_map = Map([j1 |-> JointWith(Map([stiffness |-> Num(50), damping |-> Num(2)]))])
    /\ control_yaml.gains = {[name |-> "j1", p |-> 50, i |-> 0, d |-> 2]}

(* Claims about the export commands *)

CommandDone == export_pc = "done"

ReachesTheTwin ==
    /\ LowerName(export_input.target) \in AVAILABLE_BRIDGES \cap AVAILABLE_SYNAPSES
    /\ export_input.kernel = "found"

\* C24: when the machine unified document is absent or unreadable, or holds no
\* actuation_dynamics module, the export command writes no artifact, reports
\* the problem and exits with a non-zero code.
C24_MissingInputIsFatal ==
    (CommandDone /\ ReachesTheTwin /\ export_input.twin \in MissingTwins) =>
        /\ artifacts = {}
        /\ TwinMessage(export_input.twin) \in logged
        /\ export_exit # 0

UnknownTarget == LowerName(export_input.target) \notin AVAILABLE_BRIDGES \cup AVAILABLE_SYNAPSES

\* C25: given a target name that is not a registered export target, the export
\* command reports the error together with the valid targets, exits with a
\* non-zero code, instantiates no exporter and creates no output directory or
\* file.
C25_UnknownTargetIsRejectedWhole ==
    (CommandDone /\ UnknownTarget) =>
        /\ "Unknown bridge target" \in logged
        /\ "Available bridges: ros2, isaac" \in logged
        /\ export_exit # 0
        /\ adapter = "none"
        /\ output_dir = export_input.out
        /\ artifacts = {}

(* Claims about the objects of topology resolution *)

\* The objects reachable from a value of the heap
RECURSIVE Reach(_, _)
Reach(h, c) ==
    IF ~IsRef(c) THEN {}
    ELSE {c.v} \cup UNION {Reach(h, h[c.v].v[k]) : k \in DOMAIN h[c.v].v}

MappingsOf(h, c) == {a \in Reach(h, c) : h[a].t = "map"}

InputUnchanged == Load(heap, heap_root) = heap_given

UsesProfile(key, pid) ==
    LET inst == heap_given.v["joint_actuator_mapping_map"].v[key]
    IN  "use_profile_ref_str" \in Keys(inst) /\ inst.v["use_profile_ref_str"] = Str(pid)

\* C30: topology resolution does not modify its input: at every step, and
\* after all instances are resolved, the profiles map and the instances map
\* hold the values they held at the start; and the resolved configurations of
\* two instances referencing the same profile share no mapping with each
\* other, nor any with the profiles map.
C30_InputUnchangedAndNothingShared ==
    /\ InputUnchanged
    /\ \A a \in DOMAIN heap_expanded :
          /\ MappingsOf(heap, heap_expanded[a]) \cap MappingsOf(heap, HeapProfiles) = {}
          /\ \A b \in DOMAIN heap_expanded \ {a} :
                MappingsOf(heap, heap_expanded[a]) \cap MappingsOf(heap, heap_expanded[b]) = {}

\* Both instances reference the profile P, both are resolved, and each result
\* holds a nested mapping of its own
C30_Witness ==
    /\ heap_returned # Null
    /\ DOMAIN heap_expanded = {"j1", "j2"}
    /\ UsesProfile("j1", "P") /\ UsesProfile("j2", "P")
    /\ \A k \in {"j1", "j2"} : Cardinality(MappingsOf(heap, heap_expanded[k])) >= 2
    /\ Load(heap, heap_expanded["j2"]).v["nested"] = Map([a |-> Num(9), b |-> Num(2)])

====
